---- MODULE Spec2Model ----
(***************************************************************************)
(* A model of the POS analytics scripts of concourse_analytics:            *)
(*   - the modifier resolvers (build_bar_dashboard._resolve_products,       *)
(*     export_dashboards.resolve_all_products,                             *)
(*     export_clean_csv._resolve_products), walked row by row;             *)
(*   - the multi-file readers with and without the seen-set;               *)
(*   - the revenue rule of the aggregators;                                *)
(*   - weekly (Monday) and ISO (year, week) bucketing.                     *)
(* Money is counted in cents (integers).  Dates are proleptic Gregorian    *)
(* ordinals, as datetime keeps them (0001-01-01 is day 1, a Monday).       *)
(***************************************************************************)
EXTENDS Integers, Sequences, FiniteSets, TLC

VARIABLES
    \* ---- modifier resolution ----
    pipeline,         \* "bar" | "all" | "food": which script's resolver runs
    csv_rows,         \* the CSV rows of the transaction at hand, in file order
    parsed_rows,      \* the transaction's list as parsed and sorted (history)
    rows,             \* transactions[tid]: the list of row dicts (mutable)
    i,                \* position of the for-loop over rows (1-based)
    current_product,  \* index into rows of the dict current_product names, 0 = None
    modifier_cost,    \* accumulated modifier cost
    yielded,          \* items yielded for this transaction: <<[idx, item]>>
    pc,               \* "idle" | "walk" | "flushed" | "next"
    \* ---- weekly and (year, week) bucketing ----
    daily,            \* daily[date]: revenue per Item Created Date (date ordinal)
    weekly,           \* weekly[week_start]: revenue per week start (date ordinal)
    by_year_week,     \* by_year_week[<<year, week_num>>]: revenue
    days_left,        \* keys of daily the weekly loop has not visited yet
    weeks_left,       \* keys of weekly the by-year loop has not visited yet
    spc,              \* "off" | "reading" | "weekly" | "by_year" | "done"
    \* ---- multi-file reading ----
    script,           \* the function that runs
    csv_files,        \* the input files, in the order given: <<file>>, file = <<row>>
    file_no,          \* the file being read (1-based)
    row_no,           \* the row of it being read (1-based)
    seen,             \* the seen-set of (Transaction ID, Item ID)
    raw_rows,         \* what read_all_csvs has yielded
    \* ---- aggregation ----
    aggregator,       \* the function that folds the items
    products,         \* the resolved items (rows, for load_bowling_data) it is given
    p_no,             \* position of its for-loop (1-based)
    agg,              \* agg[key]: the bucket of a key
    added,            \* the revenue computed for each item folded (history)
    apc,              \* "off" | "fold" | "done"
    \* ---- forecasts: bowling_sarima.main, bowling_seasonality.main ----
    fscript,          \* "bowling_sarima" | "bowling_seasonality" | "save_forecast"
    fargs,            \* args: forecast_weeks, forecast_full_year (0 = None), save_forecast
    forecast_weeks,   \* <<[week_start, pred]>>, <<>> while None
    forecast_csv,     \* the forecast file: [written, rows]
    loaded,           \* what load_forecast returned: [done, rows]
    now,              \* datetime.now(), a tick count
    fout,             \* [exit_code (-1 while running), message, chart]
    fpc,              \* "off" | "forecast" | "save" | "graph" | "exit"
    \* ---- the cells of the CSV files: header lookup, length guard, parsing ----
    cscript,          \* the script (or reader function) that runs
    cfiles,           \* the files it reads: <<[header, rows]>>, a row is <<cell>>
    c_no,             \* the file at hand (1-based)
    cr_no,            \* the row of it at hand (1-based)
    kept_rows,        \* the rows that passed: <<[file, row, numbers]>>
    skipped_files,    \* the files skipped for their header
    raised,           \* the exception that ended the run, "" if none
    cpc,              \* "off" | "header" | "rows" | "done" | "raised"
    \* ---- the dashboards' aggregates: load_data, export_dashboards.main ----
    dscript,          \* "build_bar_dashboard" | "export_dashboards"
    resolved,         \* the resolved items the aggregation is given, in order
    d_no,             \* position of the aggregation's for-loop (1-based)
    items,            \* load_data: items[name]
    weeks,            \* load_data: weekly[week start]
    categories,       \* load_data: categories[category]
    monthly_categories, \* load_data: monthly_cat[month][category], keyed <<month, category>>
    all_dates,        \* load_data: the dates parsed, in order
    data,             \* what load_data returned, <<>> before
    item_date,        \* aggregate_item_date: agg[<<name, date, department>>]
    transactions_json, \* the rows written to transactions.json
    summary_json,     \* the dict written to summary.json, <<>> before
    wall_clock,       \* datetime.now(), a tick count
    earlier,          \* the artifacts of the runs before this one, in order
    dpc,              \* "off" | "fold" | "rows" | "summary" | "done"
    \* ---- grouping by Transaction ID ----
    gscript,          \* "group_by_transaction" | "_read_transactions"
    surviving,        \* the rows that survived the filters, in input order
    g_no,             \* position of the grouping loop (1-based)
    transactions,     \* transactions[txn_id]: the list of that transaction's rows
    group_order,      \* the keys of transactions in insertion order
    sort_no,          \* the group the resolver's loop sorts next (1-based)
    gpc,              \* "off" | "group" | "sort" | "done"
    \* ---- the stages of a run: export_dashboards.main, export_clean_csv.main ----
    mscript,          \* "export_dashboards" | "export_clean_csv"
    has_files,        \* find_csv_files() found a file in data/
    header_ok,        \* the header of the data file has every column read
    quantity_cells,   \* the Quantity / Unit Amount cells of the rows read, in order
    has_bowling,      \* some row is a sale of the Bowling department
    persisted,        \* output/bowling_forecast.csv: [exists, cells], cells the
                      \* predicted_revenue cell of each row
    written,          \* the output files written so far, in order
    exit_status,      \* -1 while running, then the status of the process
    diagnostic,       \* what the run printed on failing, "" if nothing
    mpc               \* "off" | "start" | "transactions" | "summary" | "seasonality"
                      \* | "forecast" | "read" | "write" | "done" | "failed"

resolveVars == <<pipeline, csv_rows, parsed_rows, rows, i, current_product,
                 modifier_cost, yielded, pc>>

seasonalVars == <<daily, weekly, by_year_week, days_left, weeks_left, spc>>

readVars == <<script, csv_files, file_no, row_no, seen, raw_rows>>

aggVars == <<aggregator, products, p_no, agg, added, apc>>

forecastVars == <<fscript, fargs, forecast_weeks, forecast_csv, loaded, now, fout, fpc>>

cellVars == <<cscript, cfiles, c_no, cr_no, kept_rows, skipped_files, raised, cpc>>

dashVars == <<dscript, resolved, d_no, items, weeks, categories, monthly_categories,
              all_dates, data, item_date, transactions_json, summary_json,
              wall_clock, earlier, dpc>>

groupVars == <<gscript, surviving, g_no, transactions, group_order, sort_no, gpc>>

mainVars == <<mscript, has_files, header_ok, quantity_cells, has_bowling, persisted,
              written, exit_status, diagnostic, mpc>>

vars == <<resolveVars, seasonalVars, readVars, aggVars, forecastVars, cellVars, dashVars,
          groupVars, mainVars>>

\* what the resolver's steps leave alone
notResolve == <<seasonalVars, readVars, aggVars, forecastVars, cellVars, dashVars, groupVars, mainVars>>
\* what the bucketing steps leave alone
notSeasonal == <<resolveVars, readVars, aggVars, forecastVars, cellVars, dashVars, groupVars, mainVars>>

notRead == <<resolveVars, aggVars, forecastVars, cellVars, dashVars, groupVars, mainVars>>

notAggregate == <<resolveVars, seasonalVars, readVars, forecastVars, cellVars, dashVars, groupVars, mainVars>>

notForecast == <<resolveVars, readVars, aggVars, cellVars, dashVars, groupVars, mainVars>>

notCells == <<resolveVars, seasonalVars, readVars, aggVars, forecastVars, dashVars, groupVars, mainVars>>

notDashboard == <<resolveVars, seasonalVars, readVars, aggVars, forecastVars, cellVars,
                  groupVars, mainVars>>

notGrouping == <<resolveVars, seasonalVars, readVars, aggVars, forecastVars, cellVars,
                 dashVars, mainVars>>

notMain == <<resolveVars, seasonalVars, readVars, aggVars, forecastVars, cellVars,
             dashVars, groupVars>>

(***************************************************************************)
(* Bounds and input alphabets                                              *)
(***************************************************************************)
MaxRows == 4
\* rows of a transaction that follows another one in the same run
MaxFollowRows == 1

Pipelines == {"bar", "all", "food"}

\* the product allow-set (config/bar_items.txt, config/food_items.txt)
allowed == {"Nachos", "Bucket"}

\* the department literal each filtered resolver compares with
OwnDepartment(p) == IF p = "food" THEN "Food" ELSE "Bar"

Row(t, n, d, u) ==
    [item_id |-> 0, name |-> n, item_type |-> t, department |-> d, unit_price |-> u]

\* a CSV row: the cells the reader keeps and its Deleted and Voided cells
CsvRow(r, del, voi) ==
    [item_id |-> r.item_id, name |-> r.name, item_type |-> r.item_type,
     department |-> r.department, unit_price |-> r.unit_price,
     deleted |-> del, voided |-> voi]

LiveShapes(p) ==
       { Row("Product", "Nachos", OwnDepartment(p), u) : u \in {0, 500} }
  \cup { Row("Product", "Shoes", OwnDepartment(p), 0),
         Row("Product", "Nachos", "Bowling", 0) }
  \cup { Row("Modifier", "Topping", OwnDepartment(p), u) : u \in {-100, 150, 200} }
  \cup { Row("Package", n, "", 0) : n \in {"Bucket", "Party"} }

\* a deleted product and a voided modifier: rows that would each change the
\* result if they were read
RowShapes(p) ==
       { CsvRow(r, "False", "False") : r \in LiveShapes(p) }
  \cup { CsvRow(Row("Product", "Nachos", OwnDepartment(p), 0), "True", "False"),
         CsvRow(Row("Modifier", "Topping", OwnDepartment(p), 150), "False", "True") }

RECURSIVE SeqsUpTo(_, _)
SeqsUpTo(S, n) ==
    IF n = 0 THEN { <<>> }
    ELSE LET shorter == SeqsUpTo(S, n - 1)
         IN  shorter \cup { Append(s, x) : s \in { q \in shorter : Len(q) = n - 1 }, x \in S }

\* Item IDs in file order: ascending, or descending (a file listed newest first)
Numbered(s, descending) ==
    [k \in 1..Len(s) |->
        [s[k] EXCEPT !.item_id = IF descending THEN Len(s) + 1 - k ELSE k]]

CsvTransactions(p, n) ==
    { Numbered(s, d) : s \in SeqsUpTo(RowShapes(p), n), d \in BOOLEAN }

(***************************************************************************)
(* Reading and sorting                                                     *)
(***************************************************************************)
\* the item types a reader keeps
ItemTypes(p) ==
    IF p = "food" THEN {"Product", "Modifier"} ELSE {"Product", "Modifier", "Package"}

\* "if row[idx['Deleted']] != 'False' or row[idx['Voided']] != 'False': continue"
NotDeletedVoidedUnchecked(r) == TRUE
NotDeletedVoided(r) == r.deleted = "False" /\ r.voided = "False"

\* the dict a reader appends for a CSV row
RowDict(r) ==
    [item_id |-> r.item_id, name |-> r.name, item_type |-> r.item_type,
     department |-> r.department, unit_price |-> r.unit_price]

_read_transactions(p, csv) ==
    LET kept == SelectSeq(csv, LAMBDA r : NotDeletedVoided(r) /\ r.item_type \in ItemTypes(p))
    IN  [k \in 1..Len(kept) |-> RowDict(kept[k])]

\* list.sort(key=item_id): a stable insertion sort
RECURSIVE InsertById(_, _)
InsertById(s, r) ==
    IF s = <<>> THEN <<r>>
    ELSE IF s[Len(s)].item_id <= r.item_id THEN Append(s, r)
    ELSE Append(InsertById(SubSeq(s, 1, Len(s) - 1), r), s[Len(s)])

NotSorted(s) == s
RECURSIVE SortByItemId(_)
SortByItemId(s) ==
    IF s = <<>> THEN <<>>
    ELSE InsertById(SortByItemId(SubSeq(s, 1, Len(s) - 1)), s[Len(s)])

(***************************************************************************)
(* The resolver                                                            *)
(***************************************************************************)
\* "if r['name'] in allowed and r['department'] == '<Dept>'"; the
\* all-department resolver has no test
Qualifies(p, r) ==
    IF p = "all" THEN TRUE
    ELSE r.name \in allowed /\ r.department = OwnDepartment(p)

\* "if r['name'] in allowed: yield r"; the all-department resolver yields always
PackageQualifies(p, r) == IF p = "all" THEN TRUE ELSE r.name \in allowed

\* the backfill rule: the unit price a flushed product is yielded with
BackfillKeep(unit_price, cost) == unit_price
Backfill(unit_price, cost) ==
    IF unit_price = 0 /\ cost > 0 THEN cost ELSE unit_price

\* the flush: backfill in place, then yield the dict
FlushedRowsSummed ==
    IF current_product = 0 THEN rows
    ELSE [rows EXCEPT ![current_product].unit_price = @ + modifier_cost]
FlushedRows ==
    IF current_product = 0 THEN rows
    ELSE [rows EXCEPT ![current_product].unit_price =
              Backfill(rows[current_product].unit_price, modifier_cost)]

Yield(ys, rs, k) == Append(ys, [idx |-> k, item |-> rs[k]])

FlushedYield ==
    IF current_product = 0 THEN yielded
    ELSE Yield(yielded, FlushedRows, current_product)

\* current_product at the head of the loop over the transactions:
\* "current_product = None"
CurrentCarriedOver(cur) == cur
CurrentAtStart(cur) == 0

\* "for rows in transactions.values(): rows.sort(...); current_product = None;
\* modifier_cost = 0.0", with the reading of that transaction's CSV rows
BeginTransaction ==
    /\ pc \in {"idle", "next"}
    /\ \E csv \in CsvTransactions(pipeline, IF pc = "idle" THEN MaxRows ELSE MaxFollowRows) :
          /\ csv_rows' = csv
          /\ rows' = SortByItemId(_read_transactions(pipeline, csv))
          /\ parsed_rows' = rows'
    /\ current_product' = CurrentAtStart(current_product)
    /\ modifier_cost' = 0
    /\ i' = 1
    /\ yielded' = <<>>
    /\ pc' = "walk"
    /\ UNCHANGED <<pipeline, notResolve>>

\* current_product after a Product row: "current_product = r" or "= None"
DisqualifiedKeepsCurrent(p, r, k) == IF Qualifies(p, r) THEN k ELSE current_product
ProductBecomesCurrent(p, r, k) == IF Qualifies(p, r) THEN k ELSE 0

\* modifier_cost after a Product row: "modifier_cost = 0.0"
CostCarried(cost) == cost
CostAfterProduct(cost) == 0

\* current_product after a Package row: "current_product = None"; the Package
\* itself is never assigned to it
PackageBecomesCurrent(k) == k
CurrentAfterPackage(k) == 0

\* what the end-of-transaction flush yields
EndYieldForgotten == yielded
EndYield == FlushedYield

StepPackage ==
    /\ pc = "walk" /\ i <= Len(rows)
    /\ rows[i].item_type = "Package"
    /\ IF pipeline = "food"
       THEN UNCHANGED <<rows, yielded, current_product, modifier_cost>>
       ELSE /\ rows' = FlushedRows
            /\ yielded' = IF PackageQualifies(pipeline, rows[i])
                          THEN Yield(FlushedYield, rows', i)
                          ELSE FlushedYield
            /\ current_product' = CurrentAfterPackage(i)
            /\ modifier_cost' = IF current_product # 0 THEN 0 ELSE modifier_cost
    /\ i' = i + 1
    /\ UNCHANGED <<pipeline, csv_rows, parsed_rows, pc, notResolve>>

StepProduct ==
    /\ pc = "walk" /\ i <= Len(rows)
    /\ rows[i].item_type = "Product"
    /\ rows' = FlushedRows
    /\ yielded' = FlushedYield
    /\ current_product' = ProductBecomesCurrent(pipeline, rows[i], i)
    /\ modifier_cost' = CostAfterProduct(modifier_cost)
    /\ i' = i + 1
    /\ UNCHANGED <<pipeline, csv_rows, parsed_rows, pc, notResolve>>

StepModifier ==
    /\ pc = "walk" /\ i <= Len(rows)
    /\ rows[i].item_type = "Modifier"
    /\ modifier_cost' = IF current_product # 0
                        THEN modifier_cost + rows[i].unit_price
                        ELSE modifier_cost
    /\ i' = i + 1
    /\ UNCHANGED <<pipeline, csv_rows, parsed_rows, rows, current_product, yielded, pc, notResolve>>

EndTransaction ==
    /\ pc = "walk" /\ i > Len(rows)
    /\ rows' = FlushedRows
    /\ yielded' = EndYield
    /\ pc' = "flushed"
    /\ UNCHANGED <<pipeline, csv_rows, parsed_rows, i, current_product, modifier_cost, notResolve>>

\* the for-loop over transactions.values() moves on: the locals keep their
\* last values until BeginTransaction rebinds them
NextTransaction ==
    /\ pc = "flushed"
    /\ pc' = "next"
    /\ csv_rows' = <<>>
    /\ parsed_rows' = <<>>
    /\ rows' = <<>>
    /\ yielded' = <<>>
    /\ i' = 1
    /\ UNCHANGED <<pipeline, current_product, modifier_cost, notResolve>>

ResolveStart(ps) ==
    /\ pipeline \in ps
    /\ csv_rows = <<>>
    /\ parsed_rows = <<>>
    /\ rows = <<>>
    /\ i = 1
    /\ current_product = 0
    /\ modifier_cost = 0
    /\ yielded = <<>>
    /\ pc = "idle"

SeasonalOff ==
    /\ daily = <<>> /\ weekly = <<>> /\ by_year_week = <<>>
    /\ days_left = {} /\ weeks_left = {} /\ spc = "off"

MainOff ==
    /\ mscript = "none" /\ has_files = FALSE /\ header_ok = FALSE
    /\ quantity_cells = <<>> /\ has_bowling = FALSE
    /\ persisted = [exists |-> FALSE, cells |-> <<>>]
    /\ written = <<>> /\ exit_status = -1 /\ diagnostic = "" /\ mpc = "off"

GroupingOff ==
    /\ gscript = "none" /\ surviving = <<>> /\ g_no = 1
    /\ transactions = <<>> /\ group_order = <<>> /\ sort_no = 1 /\ gpc = "off"

DashboardOff ==
    /\ dscript = "none" /\ resolved = <<>> /\ d_no = 1
    /\ items = <<>> /\ weeks = <<>> /\ categories = <<>>
    /\ monthly_categories = <<>> /\ all_dates = <<>> /\ data = <<>>
    /\ item_date = <<>> /\ transactions_json = <<>> /\ summary_json = <<>>
    /\ wall_clock = 0 /\ earlier = <<>> /\ dpc = "off"

CellsOff ==
    /\ cscript = "none" /\ cfiles = <<>> /\ c_no = 1 /\ cr_no = 1
    /\ kept_rows = <<>> /\ skipped_files = {} /\ raised = "" /\ cpc = "off"

ForecastOff ==
    /\ fscript = "none" /\ fargs = <<>> /\ forecast_weeks = <<>>
    /\ forecast_csv = [written |-> FALSE, rows |-> <<>>]
    /\ loaded = [done |-> FALSE, rows |-> <<>>]
    /\ now = 0
    /\ fout = [exit_code |-> -1, message |-> "", chart |-> FALSE]
    /\ fpc = "off"

AggregateOff ==
    /\ aggregator = "none" /\ products = <<>> /\ p_no = 1
    /\ agg = <<>> /\ added = <<>> /\ apc = "off"

ReadOff(scripts) ==
    /\ script \in scripts
    /\ csv_files = <<>> /\ file_no = 1 /\ row_no = 1
    /\ seen = {} /\ raw_rows = <<>>

InitResolve ==
    /\ ResolveStart(Pipelines)
    /\ SeasonalOff
    /\ ReadOff({"_resolve_products"})
    /\ AggregateOff
    /\ ForecastOff
    /\ CellsOff
    /\ DashboardOff
    /\ GroupingOff
    /\ MainOff

NextResolve ==
    \/ BeginTransaction
    \/ StepPackage
    \/ StepProduct
    \/ StepModifier
    \/ EndTransaction
    \/ NextTransaction

SpecResolve == InitResolve /\ [][NextResolve]_vars

(***************************************************************************)
(* Properties of the resolvers                                             *)
(***************************************************************************)
\* the Modifier rows that follow row k before the next Product/Package/end
ModifierRun(rs, k) ==
    { j \in (k + 1)..Len(rs) : \A m \in (k + 1)..j : rs[m].item_type = "Modifier" }

RECURSIVE SumUnit(_, _)
SumUnit(rs, S) ==
    IF S = {} THEN 0
    ELSE LET j == CHOOSE x \in S : TRUE
         IN  rs[j].unit_price + SumUnit(rs, S \ {j})

\* the effective unit price the data model gives row k of the parsed list
ExpectedPrice(k) ==
    LET own == parsed_rows[k].unit_price
        sum == SumUnit(parsed_rows, ModifierRun(parsed_rows, k))
    IN  IF own = 0 /\ sum > 0 THEN sum ELSE own

YieldsOf(k) == { e \in 1..Len(yielded) : yielded[e].idx = k }

QualifyingProduct(k) ==
    parsed_rows[k].item_type = "Product" /\ Qualifies(pipeline, parsed_rows[k])

QualifyingPackage(k) ==
    parsed_rows[k].item_type = "Package" /\ PackageQualifies(pipeline, parsed_rows[k])

\* the last Product/Package row before the loop position, 0 if none
LastBoundary ==
    LET B == { k \in 1..(i - 1) : parsed_rows[k].item_type \in {"Product", "Package"} }
    IN  IF B = {} THEN 0 ELSE CHOOSE k \in B : \A m \in B : m <= k

\* C1: in every resolver, a qualifying Product with unit amount 0 that is
\* followed (before the next Product/Package or the end) by one or more
\* Modifier rows, all with positive unit amount, is yielded exactly once with
\* unit price = the sum of those Modifiers' unit amounts.
C1_BackfillInvariant ==
    pc = "flushed" =>
        \A k \in 1..Len(parsed_rows) :
            LET run == ModifierRun(parsed_rows, k)
            IN  ( /\ QualifyingProduct(k)
                  /\ parsed_rows[k].unit_price = 0
                  /\ run # {}
                  /\ \A j \in run : parsed_rows[j].unit_price > 0 )
                => /\ Cardinality(YieldsOf(k)) = 1
                   /\ \A e \in YieldsOf(k) :
                         yielded[e].item.unit_price = SumUnit(parsed_rows, run)

\* Scenario A: [Product unit 0, Modifier 2.00, Modifier 1.50] has resolved to
\* exactly one item with unit price 3.50
C1_Witness ==
    /\ pc = "flushed"
    /\ Len(parsed_rows) = 3
    /\ QualifyingProduct(1) /\ parsed_rows[1].unit_price = 0
    /\ parsed_rows[2].item_type = "Modifier" /\ parsed_rows[2].unit_price = 200
    /\ parsed_rows[3].item_type = "Modifier" /\ parsed_rows[3].unit_price = 150
    /\ Len(yielded) = 1
    /\ yielded[1].idx = 1 /\ yielded[1].item.unit_price = 350

\* C2: the Modifiers after P1 and before P2 count only for P1, those after P2
\* only for P2: while a product is current the accumulated cost is the sum of
\* the Modifier rows between it and the loop position (0 when it has just
\* become current), and every yielded Product carries the price its own run gives.
C2_FlushOrdering ==
    /\ (pc = "walk" /\ current_product # 0) =>
          /\ current_product < i
          /\ \A m \in (current_product + 1)..(i - 1) : parsed_rows[m].item_type = "Modifier"
          /\ modifier_cost = SumUnit(parsed_rows, (current_product + 1)..(i - 1))
    /\ \A e \in 1..Len(yielded) :
          parsed_rows[yielded[e].idx].item_type = "Product" =>
              yielded[e].item.unit_price = ExpectedPrice(yielded[e].idx)

\* P1, Modifier 2.00, P2, Modifier 1.50: P1 yielded at 2.00 and P2 at 1.50
C2_Witness ==
    /\ pc = "flushed"
    /\ Len(parsed_rows) = 4
    /\ QualifyingProduct(1) /\ QualifyingProduct(3)
    /\ parsed_rows[2].item_type = "Modifier" /\ parsed_rows[4].item_type = "Modifier"
    /\ parsed_rows[2].unit_price = 200 /\ parsed_rows[4].unit_price = 150
    /\ Len(yielded) = 2
    /\ yielded[1].idx = 1 /\ yielded[1].item.unit_price = 200
    /\ yielded[2].idx = 3 /\ yielded[2].item.unit_price = 150

\* C3: in the resolvers that read Package rows, at a Package row the pending
\* Product is flushed first (with backfill), the Package is yielded unchanged
\* iff its name is allowed (always in the all-department resolver), it never
\* becomes current, and the Modifiers after it change no yielded price.
C3_PackageStandalone ==
    pipeline \in {"bar", "all"} =>
        /\ (pc \in {"walk", "flushed"} /\ current_product # 0)
              => parsed_rows[current_product].item_type = "Product"
        /\ (pc = "walk" /\ LastBoundary # 0 /\ parsed_rows[LastBoundary].item_type = "Package")
              => (current_product = 0 /\ modifier_cost = 0)
        /\ \A k \in 1..Len(parsed_rows) :
              (parsed_rows[k].item_type = "Package" /\ (k < i \/ pc = "flushed")) =>
                  /\ Cardinality(YieldsOf(k)) = IF PackageQualifies(pipeline, parsed_rows[k]) THEN 1 ELSE 0
                  /\ \A e \in YieldsOf(k) : yielded[e].item = parsed_rows[k]
                  \* every Product before the Package has been flushed before it
                  /\ \A m \in 1..(k - 1) : QualifyingProduct(m) =>
                        \E e \in YieldsOf(m) :
                            /\ \A f \in YieldsOf(k) : e < f
                            /\ yielded[e].item.unit_price = ExpectedPrice(m)
                  /\ \A e \in 1..Len(yielded) : rows[yielded[e].idx] = yielded[e].item

\* bar: [Product 0, Modifier 2.00, Package "Bucket" 0, Modifier 1.50]: the
\* Product went out at 2.00 before the Package, the Package at 0
C3_Witness ==
    /\ pc = "flushed" /\ pipeline = "bar"
    /\ Len(parsed_rows) = 4
    /\ QualifyingProduct(1) /\ parsed_rows[1].unit_price = 0
    /\ parsed_rows[2].item_type = "Modifier" /\ parsed_rows[2].unit_price = 200
    /\ QualifyingPackage(3)
    /\ parsed_rows[4].item_type = "Modifier" /\ parsed_rows[4].unit_price = 150
    /\ Len(yielded) = 2
    /\ yielded[1].idx = 1 /\ yielded[1].item.unit_price = 200
    /\ yielded[2].idx = 3 /\ yielded[2].item.unit_price = 0

\* C4: in the filtered resolvers a Product that fails the allow-set or the
\* department test is never yielded and leaves no current product, so the
\* Modifiers after it are added to nothing: not to a qualifying Product
\* before it, not to one after it.
C4_DisqualifiedEatsModifiers ==
    pipeline \in {"bar", "food"} =>
        /\ \A e \in 1..Len(yielded) :
              parsed_rows[yielded[e].idx].item_type = "Product" =>
                  /\ Qualifies(pipeline, parsed_rows[yielded[e].idx])
                  /\ yielded[e].item.unit_price \in
                        { parsed_rows[yielded[e].idx].unit_price,
                          SumUnit(parsed_rows, ModifierRun(parsed_rows, yielded[e].idx)) }
        /\ ( /\ pc = "walk" /\ LastBoundary # 0
             /\ parsed_rows[LastBoundary].item_type = "Product"
             /\ ~Qualifies(pipeline, parsed_rows[LastBoundary]) )
              => (current_product = 0 /\ modifier_cost = 0)

\* [qualifying Product 0, Modifier 2.00, disqualified Product, Modifier 1.50]:
\* one item, at 2.00
C4_Witness ==
    /\ pc = "flushed" /\ pipeline \in {"bar", "food"}
    /\ Len(parsed_rows) = 4
    /\ QualifyingProduct(1) /\ parsed_rows[1].unit_price = 0
    /\ parsed_rows[2].item_type = "Modifier" /\ parsed_rows[2].unit_price = 200
    /\ parsed_rows[3].item_type = "Product" /\ ~Qualifies(pipeline, parsed_rows[3])
    /\ parsed_rows[4].item_type = "Modifier" /\ parsed_rows[4].unit_price = 150
    /\ Len(yielded) = 1
    /\ yielded[1].idx = 1 /\ yielded[1].item.unit_price = 200

\* C5: exactly one item is yielded for each qualifying Product and each
\* qualifying Package of the transaction, none for any other row, and a
\* yielded item's fields never change afterwards.
C5_ExactlyOnce ==
    /\ \A k \in 1..Len(parsed_rows) : Cardinality(YieldsOf(k)) <= 1
    /\ \A e \in 1..Len(yielded) :
          /\ QualifyingProduct(yielded[e].idx) \/ QualifyingPackage(yielded[e].idx)
          /\ rows[yielded[e].idx] = yielded[e].item
    /\ pc = "flushed" =>
          \A k \in 1..Len(parsed_rows) :
              Cardinality(YieldsOf(k)) =
                  IF QualifyingProduct(k) \/ QualifyingPackage(k) THEN 1 ELSE 0

\* a Product flushed by a later Product, one flushed by a Package, the Package,
\* and one flushed at the end of the transaction
C5_Witness ==
    /\ pc = "flushed"
    /\ Len(parsed_rows) = 4
    /\ QualifyingProduct(1) /\ QualifyingProduct(2) /\ QualifyingPackage(3)
    /\ QualifyingProduct(4)
    /\ Len(yielded) = 4

(***************************************************************************)
(* Dates: datetime's proleptic Gregorian ordinal arithmetic                *)
(***************************************************************************)
IsLeap(y) == y % 4 = 0 /\ (y % 100 # 0 \/ y % 400 = 0)

DaysBeforeYear(y) ==
    LET p == y - 1 IN p * 365 + (p \div 4) - (p \div 100) + (p \div 400)

DaysInMonth(y, m) ==
    IF m = 2 THEN (IF IsLeap(y) THEN 29 ELSE 28)
    ELSE IF m \in {4, 6, 9, 11} THEN 30 ELSE 31

RECURSIVE DaysBeforeMonth(_, _)
DaysBeforeMonth(y, m) ==
    IF m = 1 THEN 0 ELSE DaysBeforeMonth(y, m - 1) + DaysInMonth(y, m - 1)

\* datetime.strptime('YYYY-MM-DD').toordinal()
Ymd2Ord(y, m, d) == DaysBeforeYear(y) + DaysBeforeMonth(y, m) + d

\* Scenario C's date, 2025-10-09: the model's years start with its year
ScenarioDate == [y |-> 2025, m |-> 10, d |-> 9]
FirstYear == ScenarioDate.y
\* calendar years the dates are drawn from
Years == 2
\* dates drawn around a year's end: this many days before and after 1 January
WindowDays == 10
\* dates with revenue in one run
MaxDays == 2

\* dt.year
YearOf(n) ==
    CHOOSE y \in (FirstYear - 1)..(FirstYear + Years + 1) :
        DaysBeforeYear(y) < n /\ n <= DaysBeforeYear(y + 1)

\* dt.weekday(): Monday is 0
WeekdaySundayFirst(n) == n % 7
Weekday(n) == (n + 6) % 7

\* "dt - timedelta(days=dt.weekday())"
WeekStart(n) == n - Weekday(n)

\* the Monday of ISO week 1 of year y
IsoWeek1Monday(y) ==
    LET firstday == Ymd2Ord(y, 1, 1)
        firstweekday == (firstday + 6) % 7
        week1monday == firstday - firstweekday
    IN  IF firstweekday > 3 THEN week1monday + 7 ELSE week1monday

\* dt.isocalendar(): iso[0] and iso[1]
IsoCalendar(n) ==
    LET y == YearOf(n)
        week == (n - IsoWeek1Monday(y)) \div 7
    IN  IF week < 0
        THEN [year |-> y - 1, week |-> ((n - IsoWeek1Monday(y - 1)) \div 7) + 1]
        ELSE IF week >= 52 /\ n >= IsoWeek1Monday(y + 1)
        THEN [year |-> y + 1, week |-> 1]
        ELSE [year |-> y, week |-> week + 1]

\* "week_num = min(week_num, 52)"
Unclamped(week_num) == week_num
Clamp52(week_num) == IF week_num < 52 THEN week_num ELSE 52

\* the (year, week) bucket of a week start
YearWeek(ws) == <<IsoCalendar(ws).year, Clamp52(IsoCalendar(ws).week)>>

\* defaultdict(float): d[k] += v
AddTo(d, k, v) ==
    IF k \in DOMAIN d THEN [d EXCEPT ![k] = @ + v]
    ELSE [x \in DOMAIN d \cup {k} |-> IF x = k THEN v ELSE d[x]]

(***************************************************************************)
(* Weekly and by-year bucketing of the daily revenue                       *)
(***************************************************************************)
AllDays == (DaysBeforeYear(FirstYear) + 1)..DaysBeforeYear(FirstYear + Years)

YearEndDays ==
    { n \in AllDays : \E y \in FirstYear..(FirstYear + Years) :
          n > DaysBeforeYear(y + 1) - WindowDays /\ n <= DaysBeforeYear(y + 1) + WindowDays }

\* the revenue of a day: a few different amounts
DayRevenue(n) == 1000 + 125 * (n % 3)

\* the subsets of S with at most n elements
RECURSIVE SetsUpTo(_, _)
SetsUpTo(S, n) ==
    IF n = 0 THEN { {} }
    ELSE LET smaller == SetsUpTo(S, n - 1)
         IN  smaller \cup { T \cup {x} : T \in smaller, x \in S }

DaySets ==
    { {n} : n \in AllDays } \cup (SetsUpTo(YearEndDays, MaxDays) \ { {} })

\* the daily dict the load loop leaves
DailyInputs == { [n \in S |-> DayRevenue(n)] : S \in DaySets }

SeasonalStart ==
    /\ daily \in DailyInputs
    /\ weekly = <<>>
    /\ by_year_week = <<>>
    /\ days_left = DOMAIN daily
    /\ weeks_left = {}
    /\ spc = "weekly"

\* one round of "for date_str, rev in daily.items(): ... weekly[week_start] += rev"
WeeklyStep ==
    /\ spc = "weekly"
    /\ \E n \in days_left :
          /\ weekly' = AddTo(weekly, WeekStart(n), daily[n])
          /\ days_left' = days_left \ {n}
    /\ UNCHANGED <<daily, by_year_week, weeks_left, spc, notSeasonal>>

\* the weekly loop is over; export_bowling_seasonality goes on to the by-year
\* loop and so does bowling_seasonality's main (build_52week_by_year(weekly));
\* _load_bowling_weekly returns weekly
WeeklyDone ==
    /\ spc = "weekly" /\ days_left = {}
    /\ spc' = IF script = "_load_bowling_weekly" THEN "done" ELSE "by_year"
    /\ weeks_left' = IF script = "_load_bowling_weekly" THEN {} ELSE DOMAIN weekly
    /\ UNCHANGED <<daily, weekly, by_year_week, days_left, notSeasonal>>

\* one round of "for week_start, rev in weekly.items(): ...
\* by_year_week[year][week_num] += rev"
ByYearStep ==
    /\ spc = "by_year"
    /\ \E ws \in weeks_left :
          /\ by_year_week' = AddTo(by_year_week, YearWeek(ws), weekly[ws])
          /\ weeks_left' = weeks_left \ {ws}
    /\ UNCHANGED <<daily, weekly, days_left, spc, notSeasonal>>

ByYearDone ==
    /\ spc = "by_year" /\ weeks_left = {}
    /\ spc' = "done"
    /\ UNCHANGED <<daily, weekly, by_year_week, days_left, weeks_left, notSeasonal>>

ResolveOff ==
    /\ ResolveStart({"bar"})

InitSeasonal ==
    /\ SeasonalStart
    /\ ResolveOff
    /\ ReadOff({"load_bowling_data", "export_bowling_seasonality"})
    /\ AggregateOff
    /\ ForecastOff
    /\ CellsOff
    /\ DashboardOff
    /\ GroupingOff
    /\ MainOff

NextSeasonal ==
    \/ WeeklyStep
    \/ WeeklyDone
    \/ ByYearStep
    \/ ByYearDone

SpecSeasonal == InitSeasonal /\ [][NextSeasonal]_vars

(***************************************************************************)
(* Properties of the bucketing                                             *)
(***************************************************************************)
RECURSIVE SumOver(_, _)
SumOver(f, S) ==
    IF S = {} THEN 0
    ELSE LET k == CHOOSE x \in S : TRUE IN f[k] + SumOver(f, S \ {k})

\* 2025-10-06 is a Monday (Scenario C), and so is every whole week from it
IsMonday(n) == (n - Ymd2Ord(2025, 10, 6)) % 7 = 0

DaysVisited == (DOMAIN daily) \ days_left
WeeksVisited == (DOMAIN weekly) \ weeks_left

\* C9: weekly bucketing puts every date d in the bucket of a Monday w with
\* w <= d < w + 7, so the seven days Monday..Sunday of a week share one bucket
\* (the bucket holds the revenue of exactly the visited days of its week);
\* 2025-10-09 goes to 2025-10-06.
C9_WeeklyMondayStart ==
    spc # "off" =>
        /\ \A ws \in DOMAIN weekly :
              /\ IsMonday(ws)
              /\ weekly[ws] = SumOver(daily, { n \in DaysVisited : ws <= n /\ n < ws + 7 })
        /\ \A n \in DaysVisited : \E ws \in DOMAIN weekly : ws <= n /\ n < ws + 7
        /\ Ymd2Ord(2025, 10, 9) \in DaysVisited => Ymd2Ord(2025, 10, 6) \in DOMAIN weekly

\* Scenario C: 2025-10-09 has been put in the bucket of 2025-10-06
C9_Witness ==
    /\ spc = "done"
    /\ DOMAIN daily = { Ymd2Ord(ScenarioDate.y, ScenarioDate.m, ScenarioDate.d) }
    /\ DOMAIN weekly = { Ymd2Ord(2025, 10, 6) }
    /\ weekly[Ymd2Ord(2025, 10, 6)] = daily[Ymd2Ord(2025, 10, 9)]

\* C10: every bucket of the by-year view has a week number in 1..52; a week
\* start in ISO week 53 of a year goes to bucket 52 of that ISO year, together
\* with that year's week 52; and the buckets add up to the weekly revenue.
C10_Week53IntoBucket52 ==
    spc \in {"by_year", "done"} =>
        /\ \A b \in DOMAIN by_year_week :
              /\ b[2] \in 1..52
              /\ by_year_week[b] =
                    SumOver(weekly,
                        { ws \in WeeksVisited :
                            /\ IsoCalendar(ws).year = b[1]
                            /\ \/ IsoCalendar(ws).week = b[2]
                               \/ (b[2] = 52 /\ IsoCalendar(ws).week = 53) })
        /\ \A ws \in WeeksVisited :
              IsoCalendar(ws).week = 53 => <<IsoCalendar(ws).year, 52>> \in DOMAIN by_year_week
        /\ spc = "done" =>
              SumOver(by_year_week, DOMAIN by_year_week) = SumOver(weekly, DOMAIN weekly)

\* 2026-12-21 (ISO week 52 of 2026) and 2026-12-28 (ISO week 53 of 2026) have
\* both gone to bucket (2026, 52)
C10_Witness ==
    /\ spc = "done"
    /\ DOMAIN weekly = { Ymd2Ord(2026, 12, 21), Ymd2Ord(2026, 12, 28) }
    /\ DOMAIN by_year_week = { <<2026, 52>> }
    /\ by_year_week[<<2026, 52>>] =
          weekly[Ymd2Ord(2026, 12, 21)] + weekly[Ymd2Ord(2026, 12, 28)]

(***************************************************************************)
(* Reading several CSV files                                               *)
(***************************************************************************)
\* input files in one run
MaxFiles == 2

PosRow(tid, iid, del, dept, date, total, qty, unit) ==
    [txn_id |-> tid, item_id |-> iid, deleted |-> del, voided |-> "False",
     txn_type |-> "Sales", item_type |-> "Product", department |-> dept,
     date |-> date, total |-> total, qty |-> qty, unit_price |-> unit]

\* the rows of the POS: an export file holds some of them, each at most once,
\* and a row is the same in every file that holds it
PosRows ==
    << PosRow("1001", 42, "False", "Bowling", Ymd2Ord(2025, 10, 9), 1000, 1, 1000),
       PosRow("1001", 43, "False", "Bowling", Ymd2Ord(2025, 10, 11), 0, 2, 300),
       PosRow("1002", 42, "False", "Bowling", Ymd2Ord(2025, 10, 13), 500, 1, 500),
       PosRow("1003", 7, "True", "Bowling", Ymd2Ord(2025, 10, 9), 700, 1, 700),
       PosRow("1004", 8, "False", "Bar", Ymd2Ord(2025, 10, 9), 400, 1, 400) >>

RECURSIVE FileOf(_, _)
FileOf(I, k) ==
    IF k > Len(PosRows) THEN <<>>
    ELSE IF k \in I THEN <<PosRows[k]>> \o FileOf(I, k + 1)
    ELSE FileOf(I, k + 1)

CsvFiles == { FileOf(I, 1) : I \in SUBSET (1..Len(PosRows)) }

Scripts == {"read_all_csvs", "export_bowling_seasonality", "_load_bowling_weekly",
            "load_bowling_data"}

\* the row filters ahead of the seen-set
Passes(sc, r) ==
    /\ r.deleted = "False" /\ r.voided = "False"
    /\ r.txn_type = "Sales"
    /\ IF sc = "read_all_csvs"
       THEN r.item_type \in {"Product", "Modifier", "Package"}
       ELSE r.item_type = "Product" /\ r.department = "Bowling"

\* "key = (row[idx['Transaction ID']], row[idx['Item ID']])"
KeyItemIdOnly(r) == <<r.item_id>>
DedupKey(r) == <<r.txn_id, r.item_id>>

\* whether the reader keeps a seen-set at all: load_bowling_data has none
UsesSeen(sc) == sc # "load_bowling_data"

\* "total_val if total_val != 0 else (qty * unit if qty else unit)"
RevenuePositiveQty(total, qty, unit) ==
    IF total # 0 THEN total ELSE IF qty > 0 THEN qty * unit ELSE unit
Revenue(total, qty, unit) ==
    IF total # 0 THEN total ELSE IF qty # 0 THEN qty * unit ELSE unit

\* the dict read_all_csvs yields
ParsedRow(r) ==
    [txn_id |-> r.txn_id, item_id |-> r.item_id, item_type |-> r.item_type,
     department |-> r.department, qty |-> r.qty, unit_price |-> r.unit_price,
     item_total |-> r.total, date |-> r.date]

Reading == spc = "reading" /\ file_no <= Len(csv_files)
AtRow == Reading /\ row_no <= Len(csv_files[file_no])
TheRow == csv_files[file_no][row_no]

\* a row one of the "continue" filters drops
RowFiltered ==
    /\ AtRow /\ ~Passes(script, TheRow)
    /\ row_no' = row_no + 1
    /\ UNCHANGED <<script, csv_files, file_no, seen, raw_rows, seasonalVars, notRead>>

\* "if key in seen: continue"
RowDuplicate ==
    /\ AtRow /\ Passes(script, TheRow)
    /\ UsesSeen(script) /\ DedupKey(TheRow) \in seen
    /\ row_no' = row_no + 1
    /\ UNCHANGED <<script, csv_files, file_no, seen, raw_rows, seasonalVars, notRead>>

\* a row that is kept: yielded by read_all_csvs, added to daily by the others
RowAccepted ==
    /\ AtRow /\ Passes(script, TheRow)
    /\ ~(UsesSeen(script) /\ DedupKey(TheRow) \in seen)
    /\ seen' = IF UsesSeen(script) THEN seen \cup {DedupKey(TheRow)} ELSE seen
    /\ IF script = "read_all_csvs"
       THEN /\ raw_rows' = Append(raw_rows, ParsedRow(TheRow))
            /\ UNCHANGED daily
       ELSE /\ daily' = AddTo(daily, TheRow.date,
                              Revenue(TheRow.total, TheRow.qty, TheRow.unit_price))
            /\ UNCHANGED raw_rows
    /\ row_no' = row_no + 1
    /\ UNCHANGED <<script, csv_files, file_no, weekly, by_year_week, days_left,
                   weeks_left, spc, notRead>>

\* "for csv_path in csv_files": the next file
NextFile ==
    /\ Reading /\ row_no > Len(csv_files[file_no])
    /\ file_no' = file_no + 1
    /\ row_no' = 1
    /\ UNCHANGED <<script, csv_files, seen, raw_rows, seasonalVars, notRead>>

\* all files read: read_all_csvs is exhausted; the bowling loaders return
\* early without data ("if not daily") or go on to the weekly loop
ReadDone ==
    /\ spc = "reading" /\ file_no > Len(csv_files)
    /\ spc' = IF script = "read_all_csvs" \/ DOMAIN daily = {} THEN "done" ELSE "weekly"
    /\ days_left' = DOMAIN daily
    /\ UNCHANGED <<daily, weekly, by_year_week, weeks_left, readVars, notRead>>

ReadStart ==
    /\ script \in Scripts
    /\ csv_files \in SeqsUpTo(CsvFiles, MaxFiles)
    /\ file_no = 1 /\ row_no = 1
    /\ seen = {} /\ raw_rows = <<>>
    /\ daily = <<>> /\ weekly = <<>> /\ by_year_week = <<>>
    /\ days_left = {} /\ weeks_left = {} /\ spc = "reading"

InitRead ==
    /\ ReadStart /\ ResolveOff /\ AggregateOff /\ ForecastOff /\ CellsOff
    /\ DashboardOff /\ GroupingOff /\ MainOff

NextRead ==
    \/ RowFiltered
    \/ RowDuplicate
    \/ RowAccepted
    \/ NextFile
    \/ ReadDone
    \/ WeeklyStep
    \/ WeeklyDone
    \/ ByYearStep
    \/ ByYearDone

SpecRead == InitRead /\ [][NextRead]_vars

(***************************************************************************)
(* Properties of the multi-file readers                                    *)
(***************************************************************************)
\* the rows some input file holds, whatever the order of the files
RowsOfFiles ==
    UNION { { csv_files[f][k] : k \in 1..Len(csv_files[f]) } : f \in 1..Len(csv_files) }

KeptRows == { r \in RowsOfFiles : Passes(script, r) }

RECURSIVE SumRevenue(_)
SumRevenue(S) ==
    IF S = {} THEN 0
    ELSE LET r == CHOOSE x \in S : TRUE
         IN  Revenue(r.total, r.qty, r.unit_price) + SumRevenue(S \ {r})

\* every kept row counted once
DailyOnce ==
    [d \in { r.date : r \in KeptRows } |-> SumRevenue({ r \in KeptRows : r.date = d })]

WeeklyOnce ==
    [w \in { WeekStart(r.date) : r \in KeptRows } |->
        SumRevenue({ r \in KeptRows : WeekStart(r.date) = w })]

\* C6: in the readers of export_dashboards a row that several files hold is
\* counted once, and the totals depend on the set of rows in the files only,
\* not on the order of the files: read_all_csvs yields each kept row exactly
\* once, the bowling loaders' daily and weekly totals count each kept row once.
C6_DedupAcrossFiles ==
    (script \in {"read_all_csvs", "export_bowling_seasonality", "_load_bowling_weekly"}
        /\ spc \in {"weekly", "by_year", "done"}) =>
        /\ script = "read_all_csvs" =>
              /\ { raw_rows[k] : k \in 1..Len(raw_rows) } = { ParsedRow(r) : r \in KeptRows }
              /\ Len(raw_rows) = Cardinality(KeptRows)
        /\ script # "read_all_csvs" =>
              /\ daily = DailyOnce
              /\ spc \in {"by_year", "done"} => weekly = WeeklyOnce

\* Scenario B: two files both hold row ("1001", 42); the daily total of its
\* date holds its revenue once
C6_Witness ==
    /\ script = "export_bowling_seasonality" /\ spc = "done"
    /\ Len(csv_files) = 2
    /\ csv_files[1] = <<PosRows[1]>> /\ csv_files[2] = <<PosRows[1]>>
    /\ daily = [d \in {PosRows[1].date} |-> PosRows[1].total]

\* C7: load_bowling_data, given files that hold the same (Transaction ID,
\* Item ID) row, adds the row's revenue to the daily and weekly totals once.
C7_LoadBowlingDataOnce ==
    (script = "load_bowling_data" /\ spc \in {"weekly", "by_year", "done"}) =>
        /\ daily = DailyOnce
        /\ spc \in {"by_year", "done"} => weekly = WeeklyOnce

(***************************************************************************)
(* The revenue rule of the aggregators                                     *)
(***************************************************************************)
\* items folded in one run
MaxItems == 2

Aggregators == {"load_data", "aggregate_item_date", "load_bowling_data"}

\* the values of Total, Quantity and Unit Amount (the effective unit price
\* once resolved), cents and units: negative (refund), zero and positive
Totals == {-500, 0, 700}
Quantities == {-1, 0, 2}
UnitPrices == {-100, 0, 300}

\* build_bar_dashboard._read_transactions keeps no Total, so the items
\* load_data folds have none: "p.get('item_total', 0)" is 0 for them
TotalsOf(a) == IF a = "load_data" THEN {0} ELSE Totals

Item(a, total, qty, unit) ==
    [name |-> IF a = "load_bowling_data" THEN "Bowling Lane" ELSE "Nachos",
     date |-> Ymd2Ord(ScenarioDate.y, ScenarioDate.m, ScenarioDate.d),
     department |-> IF a = "load_bowling_data" THEN "Bowling" ELSE "Bar",
     qty |-> qty, unit_price |-> unit, item_total |-> total]

Items(a) ==
    { Item(a, t, q, u) : t \in TotalsOf(a), q \in Quantities, u \in UnitPrices }

\* the key of the bucket an item is added to
BucketKey(a, p) ==
    IF a = "load_data" THEN <<p.name>>
    ELSE IF a = "aggregate_item_date" THEN <<p.name, p.date, p.department>>
    ELSE <<p.date>>

\* "defaultdict(lambda: {'quantity': 0.0, 'revenue': 0.0, 'transactions': 0})"
EmptyBucket == [quantity |-> 0, revenue |-> 0, transactions |-> 0]

BucketOf(d, k) == IF k \in DOMAIN d THEN d[k] ELSE EmptyBucket

\* the revenue line of each aggregator
RevenueOf(a, p) ==
    IF a = "load_data" THEN Revenue(0, p.qty, p.unit_price)
    ELSE Revenue(p.item_total, p.qty, p.unit_price)

\* one turn of the loop: compute the revenue, add it to the bucket
AggregateStep ==
    /\ apc = "fold" /\ p_no <= Len(products)
    /\ LET p == products[p_no]
           revenue == RevenueOf(aggregator, p)
           key == BucketKey(aggregator, p)
           bucket == BucketOf(agg, key)
       IN  /\ agg' = [k \in DOMAIN agg \cup {key} |->
                        IF k = key
                        THEN [quantity |-> bucket.quantity + p.qty,
                              revenue |-> bucket.revenue + revenue,
                              transactions |-> bucket.transactions + 1]
                        ELSE agg[k]]
           /\ added' = Append(added, revenue)
    /\ p_no' = p_no + 1
    /\ UNCHANGED <<aggregator, products, apc, notAggregate>>

AggregateDone ==
    /\ apc = "fold" /\ p_no > Len(products)
    /\ apc' = "done"
    /\ UNCHANGED <<aggregator, products, p_no, agg, added, notAggregate>>

AggregateStart ==
    /\ aggregator \in Aggregators
    /\ products \in SeqsUpTo(Items(aggregator), MaxItems)
    /\ p_no = 1 /\ agg = <<>> /\ added = <<>> /\ apc = "fold"

InitAggregate ==
    /\ AggregateStart
    /\ ResolveOff
    /\ SeasonalOff
    /\ ReadOff({"none"})
    /\ ForecastOff
    /\ CellsOff
    /\ DashboardOff
    /\ GroupingOff
    /\ MainOff

NextAggregate ==
    \/ AggregateStep
    \/ AggregateDone

SpecAggregate == InitAggregate /\ [][NextAggregate]_vars

(***************************************************************************)
(* Properties of the revenue rule                                          *)
(***************************************************************************)
RECURSIVE SumSeq(_)
SumSeq(s) == IF s = <<>> THEN 0 ELSE Head(s) + SumSeq(Tail(s))

BucketRevenue == SumOver([k \in DOMAIN agg |-> agg[k].revenue], DOMAIN agg)

\* the total an item carries into the aggregator
CarriedTotal(k) == IF aggregator = "load_data" THEN 0 ELSE products[k].item_total

\* C8: the revenue every aggregator adds for an item is its total if the
\* total is not 0; otherwise quantity times unit price if the quantity is
\* not 0, a negative quantity included; otherwise the unit price alone.
\* The buckets hold the sum of these.
C8_RevenueRule ==
    apc \in {"fold", "done"} =>
        /\ \A k \in 1..Len(added) :
              added[k] = IF CarriedTotal(k) # 0 THEN CarriedTotal(k)
                         ELSE IF products[k].qty # 0
                              THEN products[k].qty * products[k].unit_price
                              ELSE products[k].unit_price
        /\ BucketRevenue = SumSeq(added)

\* a refund line without a total has been folded: quantity -1 at 3.00
C8_Witness ==
    /\ apc = "done"
    /\ \E k \in 1..Len(added) :
          /\ CarriedTotal(k) = 0 /\ products[k].qty = -1
          /\ products[k].unit_price = 300
          /\ added[k] = -300

\* C8 as stated: with a total of 0, quantity times unit price is added only
\* if the quantity is greater than 0, the unit price alone otherwise.
C8_RevenueRuleAsStated ==
    apc \in {"fold", "done"} =>
        \A k \in 1..Len(added) :
            added[k] = IF CarriedTotal(k) # 0 THEN CarriedTotal(k)
                       ELSE IF products[k].qty > 0
                            THEN products[k].qty * products[k].unit_price
                            ELSE products[k].unit_price

(***************************************************************************)
(* Forecasts: dates and amounts as text                                    *)
(***************************************************************************)
\* Forecast amounts are counted in thousandths (a float has more digits than
\* the two the file keeps).
Abs(v) == IF v < 0 THEN -v ELSE v

\* the calendar date of an ordinal: dt.year, dt.month, dt.day
Ord2Ymd(n) ==
    LET y == YearOf(n)
        rest == n - DaysBeforeYear(y)
        m == CHOOSE k \in 1..12 :
                 DaysBeforeMonth(y, k) < rest /\ rest <= DaysBeforeMonth(y, k) + DaysInMonth(y, k)
    IN  [y |-> y, m |-> m, d |-> rest - DaysBeforeMonth(y, m)]

\* week_start.strftime('%Y-%m-%d'): the text "YYYY-MM-DD", kept as its three
\* zero-padded fields
Strftime(n) == <<Ord2Ymd(n).y, Ord2Ymd(n).m, Ord2Ymd(n).d>>

\* datetime.strptime(text, '%Y-%m-%d'): midnight of that date
Strptime(text) == Ymd2Ord(text[1], text[2], text[3])

\* f'{rev:.2f}': the text of rev with two decimals, the nearest (ties, which
\* only amounts that are exact in binary have, to the even digit); kept as
\* sign, whole part and the two decimals.  A negative amount that rounds to
\* zero keeps its sign: "-0.00".
FormatTruncated(rev) ==
    [neg |-> rev < 0, whole |-> (Abs(rev) \div 10) \div 100, frac |-> (Abs(rev) \div 10) % 100]
Format2f(rev) ==
    LET q == Abs(rev) \div 10
        r == Abs(rev) % 10
        c == IF r > 5 \/ (r = 5 /\ q % 2 = 1) THEN q + 1 ELSE q
    IN  [neg |-> rev < 0, whole |-> c \div 100, frac |-> c % 100]

\* float(row['predicted_revenue']); -0.0 equals 0.0
ParseFloat(text) ==
    (IF text.neg THEN -1 ELSE 1) * (text.whole * 1000 + text.frac * 10)

\* the row save_forecast writes for one (week_start, rev)
ForecastRow(fw, saved_at) ==
    [week_start |-> Strftime(fw.week_start),
     week_of_year |-> Clamp52(IsoCalendar(fw.week_start).week),
     year |-> YearOf(fw.week_start),
     predicted_revenue |-> Format2f(fw.pred),
     saved_at |-> saved_at]

\* forecast pairs saved in one file
MaxForecast == 2

\* week starts of forecasts: Mondays around the ends of the years
ForecastMondays == { n \in YearEndDays : Weekday(n) = 0 }

\* predictions, in thousandths: -1.236, -0.004, 0, 0.125, 0.375, 1.234
PredValues == {-1236, -4, 0, 125, 375, 1234}

ForecastPairs == { [week_start |-> n, pred |-> v] : n \in ForecastMondays, v \in PredValues }

Clock == 1..2

\* save_forecast(forecast_weeks, path): header and one row per pair, all with
\* the saved_at of this call
SaveForecast ==
    /\ fpc = "save"
    /\ forecast_csv' = [written |-> TRUE,
                        rows |-> [k \in 1..Len(forecast_weeks) |->
                                     ForecastRow(forecast_weeks[k], now)]]
    /\ \E t \in Clock : t >= now /\ now' = t
    /\ fpc' = IF fscript = "save_forecast" THEN "exit" ELSE "graph"
    /\ fout' = IF fscript = "save_forecast" THEN [fout EXCEPT !.exit_code = 0] ELSE fout
    /\ UNCHANGED <<fscript, fargs, forecast_weeks, loaded, seasonalVars, notForecast>>

\* load_forecast(path) on the file a finished run has saved
LoadForecast ==
    /\ fpc = "exit" /\ forecast_csv.written /\ ~loaded.done
    /\ loaded' = [done |-> TRUE,
                  rows |-> [k \in 1..Len(forecast_csv.rows) |->
                               [week_start |-> Strptime(forecast_csv.rows[k].week_start),
                                pred |-> ParseFloat(forecast_csv.rows[k].predicted_revenue)]]]
    /\ UNCHANGED <<fscript, fargs, forecast_weeks, forecast_csv, now, fout, fpc,
                   seasonalVars, notForecast>>

(***************************************************************************)
(* Forecasts: bowling_sarima.main and bowling_seasonality.main             *)
(***************************************************************************)
\* "len(series) < 104": two seasons of 52 weeks
MinSarimaWeeks == 104
\* FORECAST_WEEKS_LOOKBACK
FORECAST_WEEKS_LOOKBACK == 4
\* --forecast-weeks goes up to this
MaxForecastWeeks == 2

\* the first week of the weekly series: the second ISO week of the first year
SeriesFirst == IsoWeek1Monday(FirstYear) + 7

\* the weeks from the first to the last week of the data, both included
SeriesSpans == {3, 60, MinSarimaWeeks - 1, MinSarimaWeeks}

\* weeks without any bowling revenue inside the span (by their position)
SeriesGaps == { {}, {1} }

\* the revenue of a week, in cents: a few different amounts
WeekRevenue(ws) == 120000 + 1200 * ((ws \div 7) % 3)

\* the weekly dict load_bowling_data returns
WeeklySeries(span, gaps) ==
    [ws \in { SeriesFirst + 7 * k : k \in (0..(span - 1)) \ gaps } |-> WeekRevenue(ws)]

MinOf(S) == CHOOSE x \in S : \A y \in S : x <= y
MaxOf(S) == CHOOSE x \in S : \A y \in S : x >= y

\* build_52week_by_year(weekly), keyed by <<year, week_num>>
RECURSIVE SumWeeks(_, _)
SumWeeks(w, S) ==
    IF S = {} THEN 0
    ELSE LET k == CHOOSE x \in S : TRUE IN w[k] + SumWeeks(w, S \ {k})

build_52week_by_year(w) ==
    [yw \in { YearWeek(ws) : ws \in DOMAIN w } |->
        SumWeeks(w, { ws \in DOMAIN w : YearWeek(ws) = yw })]

\* weekly_to_series(weekly): the series at regular weekly frequency, the
\* weeks without data filled with 0; None (length 0) for an empty dict
NoLengthCheck(w) == MinSarimaWeeks
SeriesLen(w) ==
    IF DOMAIN w = {} THEN 0
    ELSE (MaxOf(DOMAIN w) - MinOf(DOMAIN w)) \div 7 + 1

\* statistics.mean of amounts in cents, in thousandths
MeanMilli(sum, count) == (sum * 10) \div count

\* "recent_revs": the last lookback weeks, or all of them if there are fewer
RecentWeeks(w, lookback) ==
    IF Cardinality(DOMAIN w) >= lookback
    THEN { ws \in DOMAIN w : Cardinality({ x \in DOMAIN w : x > ws }) < lookback }
    ELSE DOMAIN w

\* the prediction of compute_weekly_forecast for one week
SeasonalPred(w, byw, next_week) ==
    LET week_num == Clamp52(IsoCalendar(next_week).week)
        seasonal == { yw \in DOMAIN byw : yw[2] = week_num /\ byw[yw] > 0 }
        recent == RecentWeeks(w, FORECAST_WEEKS_LOOKBACK)
    IN  IF seasonal # {}
        THEN MeanMilli(SumWeeks(byw, seasonal), Cardinality(seasonal))
        ELSE MeanMilli(SumWeeks(w, recent), Cardinality(recent))

\* compute_weekly_forecast(weekly, by_year_week, num_future_weeks, start_from_year)
compute_weekly_forecast(w, byw, num_future_weeks, start_from_year) ==
    IF DOMAIN w = {} THEN <<>>
    ELSE LET first_week == IF start_from_year # 0
                           THEN IsoWeek1Monday(start_from_year)
                           ELSE MaxOf(DOMAIN w) + 7
             num_weeks == IF start_from_year # 0 THEN 52 ELSE num_future_weeks
         IN  [k \in 1..num_weeks |->
                [week_start |-> first_week + 7 * (k - 1),
                 pred |-> SeasonalPred(w, byw, first_week + 7 * (k - 1))]]

Exit(code, message, chart) == [exit_code |-> code, message |-> message, chart |-> chart]

\* bowling_sarima.main, "if args.forecast_weeks > 0": the length check, the
\* fit (which may fail) and the forecast of the black-box model
ForecastSarima ==
    /\ fpc = "forecast" /\ fscript = "bowling_sarima"
    /\ fargs.forecast_weeks > 0
    /\ IF SeriesLen(weekly) < MinSarimaWeeks
       THEN /\ fout' = Exit(1, "Need at least 104 weeks", FALSE)
            /\ fpc' = "exit"
            /\ UNCHANGED forecast_weeks
       ELSE \E fitted \in BOOLEAN :
               IF ~fitted
               THEN /\ fout' = Exit(1, "Could not fit model", FALSE)
                    /\ fpc' = "exit"
                    /\ UNCHANGED forecast_weeks
               ELSE /\ \E preds \in [1..fargs.forecast_weeks -> PredValues] :
                          forecast_weeks' =
                              [k \in 1..fargs.forecast_weeks |->
                                  [week_start |-> MaxOf(DOMAIN weekly) + 7 * k,
                                   pred |-> preds[k]]]
                    /\ fpc' = IF fargs.save_forecast THEN "save" ELSE "graph"
                    /\ UNCHANGED fout
    /\ UNCHANGED <<fscript, fargs, forecast_csv, loaded, now, seasonalVars, notForecast>>

\* bowling_seasonality.main, "if args.forecast_weeks > 0 or
\* args.forecast_full_year is not None"
ForecastSeasonal ==
    /\ fpc = "forecast" /\ fscript = "bowling_seasonality"
    /\ fargs.forecast_weeks > 0 \/ fargs.forecast_full_year # 0
    /\ forecast_weeks' = compute_weekly_forecast(weekly, by_year_week,
                             fargs.forecast_weeks, fargs.forecast_full_year)
    /\ fpc' = IF forecast_weeks' # <<>> /\ fargs.save_forecast THEN "save" ELSE "graph"
    /\ UNCHANGED <<fscript, fargs, forecast_csv, loaded, now, fout, seasonalVars, notForecast>>

\* no forecast asked for: --forecast-weeks 0
NoForecast ==
    /\ fpc = "forecast"
    /\ fargs.forecast_weeks = 0 /\ fargs.forecast_full_year = 0
    /\ fpc' = "graph"
    /\ UNCHANGED <<fscript, fargs, forecast_weeks, forecast_csv, loaded, now, fout,
                   seasonalVars, notForecast>>

\* apply_theme(); build_graph(...); return 0
BuildGraph ==
    /\ fpc = "graph"
    /\ fout' = Exit(0, "Graph saved", TRUE)
    /\ fpc' = "exit"
    /\ UNCHANGED <<fscript, fargs, forecast_weeks, forecast_csv, loaded, now,
                   seasonalVars, notForecast>>

ForecastArgs(sc) ==
    { [forecast_weeks |-> n, forecast_full_year |-> y, save_forecast |-> sv] :
        n \in 0..MaxForecastWeeks,
        y \in IF sc = "bowling_seasonality" THEN {0, FirstYear + 2} ELSE {0},
        sv \in BOOLEAN }

\* main after load_bowling_data and build_52week_by_year
MainStart ==
    /\ fscript \in {"bowling_sarima", "bowling_seasonality"}
    /\ fargs \in ForecastArgs(fscript)
    /\ \E span \in SeriesSpans, gaps \in SeriesGaps :
          weekly = WeeklySeries(span, gaps)
    /\ daily = weekly
    /\ by_year_week = build_52week_by_year(weekly)
    /\ days_left = {} /\ weeks_left = {} /\ spc = "done"
    /\ forecast_weeks = <<>>
    /\ fpc = "forecast"

\* save_forecast called with any forecast
SaveStart ==
    /\ fscript = "save_forecast"
    /\ fargs = [forecast_weeks |-> 0, forecast_full_year |-> 0, save_forecast |-> TRUE]
    /\ forecast_weeks \in SeqsUpTo(ForecastPairs, MaxForecast)
    /\ SeasonalOff
    /\ fpc = "save"

InitForecast ==
    /\ MainStart \/ SaveStart
    /\ forecast_csv = [written |-> FALSE, rows |-> <<>>]
    /\ loaded = [done |-> FALSE, rows |-> <<>>]
    /\ now = 1
    /\ fout = Exit(-1, "", FALSE)
    /\ ResolveOff
    /\ ReadOff({"load_bowling_data"})
    /\ AggregateOff
    /\ CellsOff
    /\ DashboardOff
    /\ GroupingOff
    /\ MainOff

NextForecast ==
    \/ ForecastSarima
    \/ ForecastSeasonal
    \/ NoForecast
    \/ SaveForecast
    \/ BuildGraph
    \/ LoadForecast

SpecForecast == InitForecast /\ [][NextForecast]_vars

(***************************************************************************)
(* Properties of the forecasts                                             *)
(***************************************************************************)
\* C11: what load_forecast reads back from a file save_forecast wrote has the
\* length and order of the forecast written, the same calendar dates, and
\* each value is the written value rounded to 2 decimals: a whole number of
\* cents, at most half a cent away from it.
C11_ForecastRoundTrip ==
    loaded.done =>
        /\ Len(loaded.rows) = Len(forecast_weeks)
        /\ \A k \in 1..Len(loaded.rows) :
              /\ loaded.rows[k].week_start = forecast_weeks[k].week_start
              /\ loaded.rows[k].pred % 10 = 0
              /\ Abs(loaded.rows[k].pred - forecast_weeks[k].pred) <= 5

\* two pairs in the weeks around a new year, -1.236 and 0.375, are read back
\* as -1.24 and 0.38 in that order
C11_Witness ==
    /\ loaded.done /\ Len(forecast_weeks) = 2
    /\ YearOf(forecast_weeks[1].week_start) # YearOf(forecast_weeks[2].week_start)
    /\ forecast_weeks[1].pred = -1236 /\ loaded.rows[1].pred = -1240
    /\ forecast_weeks[2].pred = 375 /\ loaded.rows[2].pred = 380

\* C30: every row save_forecast has written carries, as (year, week_of_year),
\* the bucket build_52week_by_year gives to the row's week start: the ISO
\* year and the ISO week number clamped to 52, also for a Monday in the last
\* days of December or the first days of January.
C30_ForecastBucket ==
    forecast_csv.written =>
        \A k \in 1..Len(forecast_csv.rows) :
            <<forecast_csv.rows[k].year, forecast_csv.rows[k].week_of_year>> =
                YearWeek(forecast_weeks[k].week_start)

\* the weeks from the first to the last week with data, both included
WeeksSpanned == (MaxOf(DOMAIN weekly) - MinOf(DOMAIN weekly)) \div 7 + 1

\* C12: bowling_sarima.main, asked for a forecast on a weekly series of fewer
\* than 104 weeks, writes neither the forecast CSV nor the chart and makes no
\* forecast; it ends with the message about the 104 weeks and exit code 1.
C12_SarimaInsufficientHistory ==
    (fscript = "bowling_sarima" /\ fargs.forecast_weeks > 0
        /\ WeeksSpanned < 104) =>
        /\ forecast_weeks = <<>>
        /\ ~forecast_csv.written
        /\ ~fout.chart
        /\ fpc \in {"forecast", "exit"}
        /\ fpc = "exit" => fout = Exit(1, "Need at least 104 weeks", FALSE)

\* Scenario E: a 60-week series, a forecast to be saved, the run has ended
C12_Witness ==
    /\ fscript = "bowling_sarima" /\ fpc = "exit"
    /\ fargs.forecast_weeks > 0 /\ fargs.save_forecast
    /\ Cardinality(DOMAIN weekly) = 60 /\ WeeksSpanned = 60
    /\ fout.exit_code = 1

\* C13: bowling_seasonality.main, given a weekly series of fewer than 104
\* points, makes no forecast pairs and saves no forecast file.
C13_SeasonalInsufficientHistory ==
    (fscript = "bowling_seasonality" /\ Cardinality(DOMAIN weekly) < 104) =>
        /\ forecast_weeks = <<>>
        /\ ~forecast_csv.written

(***************************************************************************)
(* Properties of the row filters                                           *)
(***************************************************************************)
\* the CSV rows of the transaction whose Deleted and Voided cells are "False"
LiveCsvRows ==
    { csv_rows[k] : k \in { m \in 1..Len(csv_rows) :
          csv_rows[m].deleted = "False" /\ csv_rows[m].voided = "False" } }

\* a live row the resolver of this pipeline treats as a Product/Package row
LiveBoundary(r) ==
    r \in LiveCsvRows /\ r.item_type \in ItemTypes(pipeline) \ {"Modifier"}

\* the live Modifier rows between the row with Item ID j and the next live
\* Product/Package row
LiveModifiersOf(j) ==
    { m \in LiveCsvRows :
        /\ m.item_type = "Modifier" /\ m.item_id > j
        /\ ~\E b \in LiveCsvRows : LiveBoundary(b) /\ j < b.item_id /\ b.item_id < m.item_id }

RECURSIVE SumPrices(_)
SumPrices(S) ==
    IF S = {} THEN 0
    ELSE LET r == CHOOSE x \in S : TRUE IN r.unit_price + SumPrices(S \ {r})

\* the price of the live row r when only live rows count
LivePrice(r) ==
    IF r.item_type = "Product" /\ r.unit_price = 0 /\ SumPrices(LiveModifiersOf(r.item_id)) > 0
    THEN SumPrices(LiveModifiersOf(r.item_id))
    ELSE r.unit_price

LiveQualifying ==
    { r \in LiveCsvRows :
        \/ r.item_type = "Product" /\ Qualifies(pipeline, RowDict(r))
        \/ r.item_type = "Package" /\ "Package" \in ItemTypes(pipeline)
              /\ PackageQualifies(pipeline, RowDict(r)) }

MaxCsvRows == 2

\* the columns of the POS export, in the order of the export
PosHeader ==
    << "Transaction ID", "Item ID", "Name", "Item Type", "Department",
       "Subdepartment", "Quantity", "Unit Amount", "Total", "Transaction Type",
       "Deleted", "Voided", "Item Created Date", "Item Created Time" >>

\* data/food_purchases.csv, which export_clean_csv writes
FoodPurchasesHeader == << "Date", "Day_of_Week", "Cost" >>

Without(header, c) == SelectSeq(header, LAMBDA x : x # c)

\* header.index(c), 1-based; 0 when c is not in the header
Pos(header, c) ==
    IF \E k \in 1..Len(header) : header[k] = c
    THEN CHOOSE k \in 1..Len(header) : header[k] = c
    ELSE 0

\* one step of a reader on a row: the column whose cell it reads and what it
\* does with the cell.  test "in": the row goes on only if the cell is in
\* pass; "text": any text; "nonempty": the row goes on only if the cell is
\* not empty; "float": float(cell or 0); "int": int(cell); "float_or_0":
\* float(cell) inside try/except (ValueError, TypeError), 0 on failure.
\* opt: the step is behind "if <column> in idx".
Step(col, test, pass, opt) == [col |-> col, test |-> test, pass |-> pass, opt |-> opt]
In(col, pass) == Step(col, "in", pass, FALSE)
Text(col) == Step(col, "text", {}, FALSE)
Float(col) == Step(col, "float", {}, FALSE)
Opt(step) == [step EXCEPT !.opt = TRUE]

NotDeleted == <<In("Deleted", {"False"}), In("Voided", {"False"})>>

\* the cells each reader reads of a row, in the order it reads them
Reads(sc) ==
    CASE sc = "find_modifiers" ->
            <<In("Item Type", {"Modifier"})>> \o NotDeleted \o
            <<In("Department", {"Food"}), Text("Name"), Text("Subdepartment"),
              Float("Unit Amount"), Float("Total")>>
      [] sc = "food_products" ->
            <<In("Department", {"Food"}), In("Item Type", {"Product"})>> \o NotDeleted \o
            <<Text("Name"), Text("Subdepartment"), Float("Quantity"), Float("Total"),
              Float("Unit Amount"), Text("Item Created Date")>>
      [] sc = "product_summary" ->
            <<In("Item Type", {"Product"})>> \o NotDeleted \o
            <<Text("Name"), Text("Department"), Text("Subdepartment"),
              Float("Quantity"), Float("Total")>>
      [] sc = "build_bar_dashboard" ->
            NotDeleted \o
            <<In("Item Type", {"Product", "Modifier", "Package"}), Text("Transaction ID"),
              Step("Item ID", "int", {}, FALSE), Text("Name"), Text("Department"),
              Text("Subdepartment"), Float("Quantity"), Float("Unit Amount"),
              Text("Item Created Date")>>
      [] sc = "export_clean_csv" ->
            NotDeleted \o
            <<In("Item Type", {"Product", "Modifier"}), Text("Transaction ID"),
              Step("Item ID", "int", {}, FALSE), Text("Name"), Text("Department"),
              Float("Unit Amount"), Text("Item Created Date"), Text("Item Created Time")>>
      [] sc = "load_bowling_data" ->
            NotDeleted \o
            <<In("Transaction Type", {"Sales"}), In("Item Type", {"Product"}),
              In("Department", {"Bowling"}), Text("Item Created Date"),
              Float("Total"), Float("Quantity"), Float("Unit Amount")>>
      [] sc = "read_all_csvs" ->
            NotDeleted \o
            <<Opt(In("Transaction Type", {"Sales"})),
              In("Item Type", {"Product", "Modifier", "Package"}),
              Text("Transaction ID"), Text("Item ID"), Text("Name"),
              Float("Quantity"), Float("Unit Amount"), Opt(Float("Total")),
              Step("Item ID", "int", {}, FALSE), Opt(Text("Department")),
              Opt(Text("Subdepartment")), Text("Item Created Date")>>
      [] sc \in {"export_bowling_seasonality", "_load_bowling_weekly"} ->
            NotDeleted \o
            <<In("Transaction Type", {"Sales"}), In("Item Type", {"Product"}),
              In("Department", {"Bowling"}), Text("Transaction ID"), Text("Item ID"),
              Text("Item Created Date"), Opt(Float("Total")), Opt(Float("Quantity")),
              Opt(Float("Unit Amount"))>>
      [] sc = "load_day_of_week_data" ->
            <<Step("Date", "nonempty", {}, FALSE), Step("Day_of_Week", "nonempty", {}, FALSE),
              Step("Cost", "float_or_0", {}, FALSE)>>

\* the columns a reader looks up in the header
Columns(sc) ==
    CASE sc = "find_modifiers" ->
            {"Name", "Item Type", "Department", "Subdepartment", "Quantity", "Total",
             "Unit Amount", "Deleted", "Voided"}
      [] sc = "read_all_csvs" ->
            {"Transaction ID", "Item ID", "Name", "Item Type", "Department",
             "Subdepartment", "Quantity", "Unit Amount", "Total", "Transaction Type",
             "Deleted", "Voided", "Item Created Date"}
      [] OTHER -> { Reads(sc)[k].col : k \in 1..Len(Reads(sc)) }

\* how the header is looked up: "index" is header.index(c) for every column
\* (ValueError for a missing one); "present" keeps the columns that are
\* there; "dict" is csv.DictReader
Lookup(sc) ==
    IF sc \in {"read_all_csvs", "export_bowling_seasonality", "_load_bowling_weekly"}
    THEN "present"
    ELSE IF sc = "load_day_of_week_data" THEN "dict" ELSE "index"

\* the columns a "present" reader tests for before reading a file
Required(sc) ==
    IF sc = "read_all_csvs" THEN {"Transaction ID", "Item ID"}
    ELSE IF sc \in {"export_bowling_seasonality", "_load_bowling_weekly"}
    THEN {"Transaction ID", "Item ID", "Transaction Type", "Item Type", "Department",
          "Item Created Date", "Deleted", "Voided"}
    ELSE {}

\* the columns whose positions the length guard takes the maximum of
GuardColumns(sc) ==
    CASE sc = "find_modifiers" -> {"Name", "Item Type", "Department"}
      [] sc = "food_products" ->
            {"Name", "Item Type", "Department", "Subdepartment", "Deleted", "Voided",
             "Item Created Date"}
      [] sc = "product_summary" ->
            {"Name", "Item Type", "Department", "Subdepartment", "Deleted", "Voided"}
      [] sc = "load_day_of_week_data" -> {}
      [] OTHER -> Columns(sc)

\* the readers that take several files
MultiFile == {"read_all_csvs", "export_bowling_seasonality", "_load_bowling_weekly",
              "load_bowling_data"}

CellScripts ==
    {"find_modifiers", "food_products", "product_summary", "build_bar_dashboard",
     "export_clean_csv", "load_day_of_week_data"} \cup MultiFile

\* the cells that float() and int() accept, and their values (amounts in cents)
NumberOf(cell) ==
    CASE cell = "2" -> 200
      [] cell = "3.00" -> 300
      [] cell = "10.00" -> 1000
      [] cell = "12.50" -> 1250
      [] cell \in {"11", "12", "13", "21", "22", "23"} -> 0
      [] OTHER -> -1

IsNumber(cell) == NumberOf(cell) >= 0

\* float(cell or 0)
FloatSwallowed(cell) == IF IsNumber(cell) THEN NumberOf(cell) ELSE 0
FloatOf(cell) == IF cell = "" THEN 0 ELSE NumberOf(cell)

\* the position the length guard compares with: max(idx.values()), 1-based
GuardPos(sc, header) ==
    LET ps == { Pos(header, c) : c \in GuardColumns(sc) }
    IN  IF ps = {} THEN 0 ELSE CHOOSE x \in ps : \A y \in ps : y <= x

\* what the header of a file leads to: "ok", "skip" (continue with the next
\* file) or the exception raised
HeaderOutcome(sc, header) ==
    IF Lookup(sc) = "index"
    THEN IF \E c \in Columns(sc) : Pos(header, c) = 0 THEN "ValueError" ELSE "ok"
    ELSE IF Lookup(sc) = "present"
    THEN IF \E c \in Required(sc) : Pos(header, c) = 0 THEN "skip" ELSE "ok"
    ELSE "ok"

\* the steps on a row from step k on: "keep", "filtered" or the exception
RECURSIVE RunReads(_, _, _, _)
RunReads(steps, k, header, row) ==
    IF k > Len(steps) THEN "keep"
    ELSE LET st == steps[k]
             pos == Pos(header, st.col)
             next == RunReads(steps, k + 1, header, row)
         IN  IF pos = 0 THEN (IF st.opt THEN next ELSE "KeyError")
             ELSE IF pos > Len(row) THEN "IndexError"
             ELSE CASE st.test = "in" -> IF row[pos] \in st.pass THEN next ELSE "filtered"
                    [] st.test = "nonempty" -> IF row[pos] # "" THEN next ELSE "filtered"
                    [] st.test = "float" ->
                          IF row[pos] = "" \/ IsNumber(row[pos]) THEN next ELSE "ValueError"
                    [] st.test = "int" -> IF IsNumber(row[pos]) THEN next ELSE "ValueError"
                    [] OTHER -> next

\* "if len(row) <= max_idx: continue", then the reads
RowOutcome(sc, header, row) ==
    IF Len(row) < GuardPos(sc, header) THEN "short"
    ELSE RunReads(Reads(sc), 1, header, row)

\* the numbers a kept row gives, by column
NumbersOf(sc, header, row) ==
    LET steps == Reads(sc)
        cols == { steps[k].col : k \in { m \in 1..Len(steps) :
                     steps[m].test \in {"float", "float_or_0"} /\ Pos(header, steps[m].col) # 0 } }
    IN  [c \in cols |->
            IF sc = "load_day_of_week_data" THEN FloatSwallowed(row[Pos(header, c)])
            ELSE FloatOf(row[Pos(header, c)])]

CurFile == cfiles[c_no]
CurRow == CurFile.rows[cr_no]
AtHeader == cpc = "header" /\ c_no <= Len(cfiles)
AtCells == cpc = "rows" /\ cr_no <= Len(CurFile.rows)

\* the header is read and every column needed is found
OpenFile ==
    /\ AtHeader /\ HeaderOutcome(cscript, CurFile.header) = "ok"
    /\ cpc' = "rows" /\ cr_no' = 1
    /\ UNCHANGED <<cscript, cfiles, c_no, kept_rows, skipped_files, raised, notCells>>

\* "if not required.issubset(idx.keys()): continue"
SkipFile ==
    /\ AtHeader /\ HeaderOutcome(cscript, CurFile.header) = "skip"
    /\ skipped_files' = skipped_files \cup {c_no}
    /\ c_no' = c_no + 1
    /\ UNCHANGED <<cscript, cfiles, cr_no, kept_rows, raised, cpc, notCells>>

\* header.index(c) raises ValueError; nothing catches it
HeaderRaises ==
    /\ AtHeader /\ HeaderOutcome(cscript, CurFile.header) = "ValueError"
    /\ raised' = "ValueError" /\ cpc' = "raised"
    /\ UNCHANGED <<cscript, cfiles, c_no, cr_no, kept_rows, skipped_files, notCells>>

\* "if len(row) <= max_idx: continue"
CellRowShort ==
    /\ AtCells /\ RowOutcome(cscript, CurFile.header, CurRow) = "short"
    /\ cr_no' = cr_no + 1
    /\ UNCHANGED <<cscript, cfiles, c_no, kept_rows, skipped_files, raised, cpc, notCells>>

\* one of the tests on the cells fails: the row is passed over
CellRowFiltered ==
    /\ AtCells /\ RowOutcome(cscript, CurFile.header, CurRow) = "filtered"
    /\ cr_no' = cr_no + 1
    /\ UNCHANGED <<cscript, cfiles, c_no, kept_rows, skipped_files, raised, cpc, notCells>>

\* the row passes every test and its cells parse
CellRowKept ==
    /\ AtCells /\ RowOutcome(cscript, CurFile.header, CurRow) = "keep"
    /\ kept_rows' = Append(kept_rows,
          [file |-> c_no, row |-> cr_no,
           numbers |-> NumbersOf(cscript, CurFile.header, CurRow)])
    /\ cr_no' = cr_no + 1
    /\ UNCHANGED <<cscript, cfiles, c_no, skipped_files, raised, cpc, notCells>>

\* reading a cell raises IndexError, KeyError or ValueError; nothing catches it
CellRowRaises ==
    /\ AtCells
    /\ RowOutcome(cscript, CurFile.header, CurRow) \in {"IndexError", "KeyError", "ValueError"}
    /\ raised' = RowOutcome(cscript, CurFile.header, CurRow)
    /\ cpc' = "raised"
    /\ UNCHANGED <<cscript, cfiles, c_no, cr_no, kept_rows, skipped_files, notCells>>

\* the rows of the file are exhausted
EndOfFile ==
    /\ cpc = "rows" /\ cr_no > Len(CurFile.rows)
    /\ c_no' = c_no + 1 /\ cpc' = "header"
    /\ UNCHANGED <<cscript, cfiles, cr_no, kept_rows, skipped_files, raised, notCells>>

\* the files are exhausted
CellsDone ==
    /\ cpc = "header" /\ c_no > Len(cfiles)
    /\ cpc' = "done"
    /\ UNCHANGED <<cscript, cfiles, c_no, cr_no, kept_rows, skipped_files, raised, notCells>>

\* the Item ID cell of row r of file f: no two rows of a run share a key
IdCell(f, r) == <<<<"11", "12", "13">>, <<"21", "22", "23">>>>[f][r]

\* the cell of a POS row under a column
PosCell(col, t, id) ==
    CASE col = "Transaction ID" -> "1001"
      [] col = "Item ID" -> id
      [] col = "Name" -> "Nachos"
      [] col = "Item Type" -> t.item_type
      [] col = "Department" -> t.department
      [] col = "Subdepartment" -> ""
      [] col = "Quantity" -> t.qty
      [] col = "Unit Amount" -> "3.00"
      [] col = "Total" -> "10.00"
      [] col = "Transaction Type" -> "Sales"
      [] col = "Deleted" -> "False"
      [] col = "Voided" -> "False"
      [] col = "Item Created Date" -> "2025-10-09"
      [] col = "Item Created Time" -> "12:00:00"
      [] col = "Date" -> "2025-10-09"
      [] col = "Day_of_Week" -> "Thursday"
      [] col = "Cost" -> t.qty

\* a row: its item type, department, numeric cell (Quantity, or Cost) and
\* the number of cells it has (0: as many as the header)
Template(it, dept, qty, cells) ==
    [item_type |-> it, department |-> dept, qty |-> qty, cells |-> cells]

PosTemplates ==
       { Template("Modifier", "Food", q, 0) : q \in {"2", "", "abc"} }
  \cup { Template("Product", "Bowling", q, 0) : q \in {"2", "", "abc"} }
  \cup { Template("Product", "Food", "2", 0) }
  \cup { Template("Modifier", "Food", "2", n) : n \in {2, 7, 11} }
  \cup { Template("Product", "Bowling", "2", n) : n \in {7, 11} }

FoodPurchaseTemplates ==
    { Template("Product", "Food", c, 0) : c \in {"12.50", "", "abc"} }

RowTemplates(sc) ==
    IF sc = "load_day_of_week_data" THEN FoodPurchaseTemplates ELSE PosTemplates

\* the row of a template under a header, cut to its number of cells
RowCells(header, t, id) ==
    LET n == IF t.cells = 0 \/ t.cells > Len(header) THEN Len(header) ELSE t.cells
    IN  [k \in 1..n |-> PosCell(header[k], t, id)]

\* the headers a file may have: complete, or with one column missing
Headers(sc) ==
    IF sc = "load_day_of_week_data" THEN {FoodPurchasesHeader}
    ELSE {PosHeader} \cup
         { Without(PosHeader, c) : c \in {"Deleted", "Total", "Quantity", "Item ID"} }

CsvFile(f, header, ts) ==
    [header |-> header, rows |-> [r \in 1..Len(ts) |-> RowCells(header, ts[r], IdCell(f, r))]]

\* a file without fault: the complete header and one Bowling product row
GoodFile(f) == CsvFile(f, PosHeader, <<Template("Product", "Bowling", "2", 0)>>)

\* the runs: one file, or for the multi-file readers that file before or after
\* a file without fault
CellRuns(sc) ==
    LET files == { [header |-> h, ts |-> ts] :
                     h \in Headers(sc), ts \in SeqsUpTo(RowTemplates(sc), MaxCsvRows) }
    IN  { <<CsvFile(1, x.header, x.ts)>> : x \in files }
        \cup (IF sc \in MultiFile
              THEN { <<CsvFile(1, x.header, x.ts), GoodFile(2)>> : x \in files }
                   \cup { <<GoodFile(1), CsvFile(2, x.header, x.ts)>> : x \in files }
              ELSE {})

CellsStart ==
    /\ cscript \in CellScripts
    /\ cfiles \in CellRuns(cscript)
    /\ c_no = 1 /\ cr_no = 1
    /\ kept_rows = <<>> /\ skipped_files = {} /\ raised = "" /\ cpc = "header"

InitCells ==
    /\ CellsStart
    /\ ResolveOff
    /\ SeasonalOff
    /\ ReadOff({"none"})
    /\ AggregateOff
    /\ ForecastOff
    /\ DashboardOff
    /\ GroupingOff
    /\ MainOff

NextCells ==
    \/ OpenFile
    \/ SkipFile
    \/ HeaderRaises
    \/ CellRowShort
    \/ CellRowFiltered
    \/ CellRowKept
    \/ CellRowRaises
    \/ EndOfFile
    \/ CellsDone

SpecCells == InitCells /\ [][NextCells]_vars

(***************************************************************************)
(* Properties of the cell-level reading                                    *)
(***************************************************************************)
\* the highest position among the columns the reader reads of this header
HighestRead(sc, header) ==
    LET ps == { Pos(header, Reads(sc)[k].col) : k \in 1..Len(Reads(sc)) }
    IN  CHOOSE x \in ps : \A y \in ps : y <= x

\* C15: a data row with fewer fields than the highest column position the
\* script reads never raises an error: no run ends in an exception at such a
\* row.
C15_ShortRowSkipped ==
    (cpc = "raised" /\ c_no <= Len(cfiles) /\ cr_no <= Len(CurFile.rows)
        /\ HeaderOutcome(cscript, CurFile.header) = "ok")
        => ~(Len(CurRow) < HighestRead(cscript, CurFile.header))

\* the columns a reader reads without "if <column> in idx"
ColumnsNeeded(sc) ==
    { Reads(sc)[k].col : k \in { m \in 1..Len(Reads(sc)) : ~Reads(sc)[m].opt } }

LacksColumn(sc, header) == \E c \in ColumnsNeeded(sc) : Pos(header, c) = 0

\* C16: in the multi-file readers a file whose header lacks a column the
\* reader needs is skipped and the other files are processed: the run does not
\* end in an exception at such a file, and no row of such a file is kept.
C16_MalformedHeaderSkipped ==
    cscript \in MultiFile =>
        /\ (cpc = "raised" /\ c_no <= Len(cfiles))
              => ~LacksColumn(cscript, CurFile.header)
        /\ \A e \in 1..Len(kept_rows) :
              ~LacksColumn(cscript, cfiles[kept_rows[e].file].header)

\* the numeric cells of row r of file f that the reader parses
NumericCells(sc, f, r) ==
    LET header == cfiles[f].header
        steps == Reads(sc)
    IN  { cfiles[f].rows[r][Pos(header, steps[k].col)] :
            k \in { m \in 1..Len(steps) :
                      /\ steps[m].test \in {"float", "float_or_0"}
                      /\ Pos(header, steps[m].col) # 0
                      /\ Pos(header, steps[m].col) <= Len(cfiles[f].rows[r]) } }

\* C17: an empty numeric cell is read as 0, and a non-empty cell that is not
\* a number is never swallowed: no kept row has such a cell among the
\* numeric cells read.
C17_NumericParseFatal ==
    \A e \in 1..Len(kept_rows) :
        LET f == kept_rows[e].file
            r == kept_rows[e].row
            header == cfiles[f].header
        IN  /\ \A cell \in NumericCells(cscript, f, r) : cell = "" \/ IsNumber(cell)
            /\ \A c \in DOMAIN kept_rows[e].numbers :
                  cfiles[f].rows[r][Pos(header, c)] = "" => kept_rows[e].numbers[c] = 0

(***************************************************************************)
(* The dashboards' aggregates: build_bar_dashboard.load_data and           *)
(* export_dashboards.aggregate_item_date / export_summary                  *)
(***************************************************************************)
\* resolved items aggregated in one run
MaxResolved == 2

Dashboards == {"build_bar_dashboard", "export_dashboards"}

\* The text of Item Created Date, kept as its dash-separated fields:
\* "2025-10-09" and "2025-10-13" (two weeks of one month), "" (an empty
\* cell) and "2025-10-09 14" (a date with the hour after it)
DateTexts == {<<2025, 10, 9>>, <<2025, 10, 13>>, <<>>, <<2025, 10, 9, 14>>}

\* datetime.strptime(date_str, '%Y-%m-%d') does not raise ValueError
ParsesAsDate(text) ==
    /\ Len(text) = 3
    /\ text[2] \in 1..12
    /\ text[3] \in 1..DaysInMonth(text[1], text[2])

\* date_str[:7], the "YYYY-MM" of the text
MonthOf(text) == SubSeq(text, 1, 2)

\* the order of two date texts as Python compares str: field by field (the
\* fields are zero-padded), a prefix before the longer text
RECURSIVE TextLess(_, _)
TextLess(a, b) ==
    IF b = <<>> THEN FALSE
    ELSE IF a = <<>> THEN TRUE
    ELSE IF Head(a) # Head(b) THEN Head(a) < Head(b)
    ELSE TextLess(Tail(a), Tail(b))

\* the order of the names and departments of the model as Python compares
\* str (by code point)
StrRank(str) ==
    CASE str = "" -> 0
      [] str = "Bar" -> 1
      [] str = "Bud Light Bucket" -> 2
      [] str = "Draft Pint" -> 3
      [] str = "Food" -> 4
      [] str = "Lager" -> 5
      [] str = "Nachos" -> 6
      [] str = "TEST DEPARTMENT" -> 7
      [] str = "Test Item" -> 8

\* The products of the model: [name, department, subdepartment], the
\* Subdepartment cell as the export holds it.  A Package has none, the POS
\* numbered its subdepartments for a time ("10. Draft Beer"), and an item may
\* have been moved from one subdepartment to another.
BarProducts ==
    { [name |-> "Bud Light Bucket", department |-> "Bar", subdepartment |-> ""],
      [name |-> "Lager", department |-> "Bar", subdepartment |-> "Bottle Beer"],
      [name |-> "Lager", department |-> "Bar", subdepartment |-> ""],
      [name |-> "Draft Pint", department |-> "Bar", subdepartment |-> "10. Draft Beer"] }
AllProducts ==
    { [name |-> "Bud Light Bucket", department |-> "Bar", subdepartment |-> ""],
      [name |-> "Nachos", department |-> "Food", subdepartment |-> "Snacks"],
      [name |-> "Test Item", department |-> "TEST DEPARTMENT", subdepartment |-> ""],
      [name |-> "Draft Pint", department |-> "Bar", subdepartment |-> "10. Draft Beer"],
      [name |-> "Draft Pint", department |-> "Bar", subdepartment |-> "Bottle Beer"] }

\* normalize_subdepartment: re.sub(r'^\d+\.\s*', '', subdept), on the
\* subdepartment texts of the model
normalize_subdepartment(subdept) ==
    IF subdept = "10. Draft Beer" THEN "Draft Beer" ELSE subdept

\* the 'subdepartment' a reader puts in the row dict: read_all_csvs
\* normalises it, build_bar_dashboard._read_transactions only strips it
SubdepartmentRead(sc, cell) ==
    IF sc = "export_dashboards" THEN normalize_subdepartment(cell) ELSE cell

\* a resolved item as the resolver yields it; build_bar_dashboard keeps no
\* Total
ResolvedItem(sc, pr, date, total) ==
    [name |-> pr.name, department |-> pr.department,
     subdepartment |-> SubdepartmentRead(sc, pr.subdepartment), date |-> date,
     qty |-> 2, unit_price |-> 300, item_total |-> total]

ResolvedItems(sc) ==
    IF sc = "build_bar_dashboard"
    THEN { ResolvedItem(sc, pr, dt, 0) : pr \in BarProducts, dt \in DateTexts }
    ELSE { ResolvedItem(sc, pr, dt, 0) : pr \in AllProducts, dt \in DateTexts }
         \cup { ResolvedItem(sc, pr, dt, 700) :
                  pr \in { q \in AllProducts : q.name = "Nachos" }, dt \in DateTexts }

\* BAR_CATEGORY_MAP.get(name, 'Other')
BAR_CATEGORY_MAP(name) ==
    IF name = "Bud Light Bucket" THEN "Beer Buckets" ELSE "Other"

\* the category overrides export_dashboards.main loads
CategoryOverrides == [n \in {"Nachos"} |-> "Appetizers"]

\* the departments aggregate_item_date drops from its rows
NoDepartmentSkipped == {}
SKIP_DEPARTMENTS == {"", "TEST DEPARTMENT", "Parties test"}

\* "category = subdept or BAR_CATEGORY_MAP.get(name, 'Other')"
BarCategory(p) ==
    IF p.subdepartment # "" THEN p.subdepartment ELSE BAR_CATEGORY_MAP(p.name)

\* "category_overrides.get(name) or subdept or dept"
RowCategory(name, subdept, dept) ==
    IF name \in DOMAIN CategoryOverrides /\ CategoryOverrides[name] # ""
    THEN CategoryOverrides[name]
    ELSE IF subdept # "" THEN subdept ELSE dept

\* d[k] of a defaultdict
Get(d, k, default) == IF k \in DOMAIN d THEN d[k] ELSE default

\* d with d[k] = v
Put(d, k, v) == [x \in DOMAIN d \cup {k} |-> IF x = k THEN v ELSE d[x]]

EmptyItem(category) ==
    [category |-> category, qty |-> 0, revenue |-> 0, transactions |-> 0, unit_price |-> 0]

\* lines 241-248 of load_data: the per-item totals
AddToItems(p, revenue) ==
    LET it == Get(items, p.name, EmptyItem(BarCategory(p)))
    IN  Put(items, p.name,
            [category |-> it.category,
             qty |-> it.qty + p.qty,
             revenue |-> it.revenue + revenue,
             transactions |-> it.transactions + 1,
             unit_price |-> IF p.unit_price > 0 THEN p.unit_price ELSE it.unit_price])

\* "weekly[ws]['revenue'] += revenue; ...['qty'] += qty; ...['transactions'] += 1"
AddBucket(d, k, revenue, qty) ==
    LET b == Get(d, k, [revenue |-> 0, qty |-> 0, transactions |-> 0])
    IN  Put(d, k, [revenue |-> b.revenue + revenue, qty |-> b.qty + qty,
                   transactions |-> b.transactions + 1])

\* "monthly_cat[month][category]['revenue'] += revenue; ...['qty'] += qty"
AddMonthly(d, k, revenue, qty) ==
    LET b == Get(d, k, [revenue |-> 0, qty |-> 0])
    IN  Put(d, k, [revenue |-> b.revenue + revenue, qty |-> b.qty + qty])

AtItem == dpc = "fold" /\ d_no <= Len(resolved)

\* load_data, one turn of the loop with a date that parses: the item is
\* added to the per-item totals, then to the week, the category and the
\* month-by-category buckets
LoadItem ==
    /\ dscript = "build_bar_dashboard" /\ AtItem
    /\ LET p == resolved[d_no]
           revenue == RevenueOf("load_data", p)
           dt == Strptime(p.date)
       IN  /\ ParsesAsDate(p.date)
           /\ items' = AddToItems(p, revenue)
           /\ all_dates' = Append(all_dates, dt)
           /\ weeks' = AddBucket(weeks, WeekStart(dt), revenue, p.qty)
           /\ categories' = AddBucket(categories, BarCategory(p), revenue, p.qty)
           /\ monthly_categories' =
                 AddMonthly(monthly_categories, <<MonthOf(p.date), BarCategory(p)>>,
                       revenue, p.qty)
    /\ d_no' = d_no + 1
    /\ UNCHANGED <<dscript, resolved, data, item_date, transactions_json,
                   summary_json, wall_clock, earlier, dpc, notDashboard>>

\* load_data, one turn of the loop with a date that does not parse: the
\* per-item totals are added before the "continue" of the except clause,
\* the category totals come after it
LoadItemNoDate ==
    /\ dscript = "build_bar_dashboard" /\ AtItem
    /\ LET p == resolved[d_no]
       IN  /\ ~ParsesAsDate(p.date)
           /\ items' = AddToItems(p, RevenueOf("load_data", p))
    /\ d_no' = d_no + 1
    /\ UNCHANGED <<dscript, resolved, weeks, categories, monthly_categories,
                   all_dates, data, item_date, transactions_json, summary_json,
                   wall_clock, earlier, dpc, notDashboard>>

MinDate(S) == CHOOSE x \in S : \A y \in S : x <= y
MaxDate(S) == CHOOSE x \in S : \A y \in S : y <= x
Range(s) == { s[k] : k \in DOMAIN s }

\* dt.strftime('%b %d, %Y'): month name, day and year
StrftimeBdY(n) == <<Ord2Ymd(n).m, Ord2Ymd(n).d, Ord2Ymd(n).y>>

\* load_data, after the loop: the totals over the items and the dict returned
LoadDataReturn ==
    /\ dscript = "build_bar_dashboard" /\ dpc = "fold" /\ d_no > Len(resolved)
    /\ data' =
          [num_weeks |-> IF DOMAIN weeks = {} THEN 1 ELSE Cardinality(DOMAIN weeks),
           total_revenue |-> SumOver([n \in DOMAIN items |-> items[n].revenue], DOMAIN items),
           total_qty |-> SumOver([n \in DOMAIN items |-> items[n].qty], DOMAIN items),
           total_transactions |->
               SumOver([n \in DOMAIN items |-> items[n].transactions], DOMAIN items),
           date_range |->
               IF all_dates = <<>> THEN <<"N/A", "N/A">>
               ELSE <<StrftimeBdY(MinDate(Range(all_dates))),
                      StrftimeBdY(MaxDate(Range(all_dates)))>>]
    /\ dpc' = "done"
    /\ UNCHANGED <<dscript, resolved, d_no, items, weeks, categories,
                   monthly_categories, all_dates, item_date, transactions_json,
                   summary_json, wall_clock, earlier, notDashboard>>

\* aggregate_item_date, one turn of the first loop: the bucket of (name,
\* date text, department); the date text is the key as it stands
AggregateItemDate ==
    /\ dscript = "export_dashboards" /\ AtItem
    /\ LET p == resolved[d_no]
           revenue == RevenueOf("aggregate_item_date", p)
           key == <<p.name, p.date, p.department>>
           b == Get(item_date, key,
                    [quantity |-> 0, revenue |-> 0, transactions |-> 0, subdepartment |-> ""])
       IN  item_date' =
               Put(item_date, key,
                   [quantity |-> b.quantity + p.qty,
                    revenue |-> b.revenue + revenue,
                    transactions |-> b.transactions + 1,
                    subdepartment |-> IF p.subdepartment # "" THEN p.subdepartment
                                      ELSE b.subdepartment])
    /\ d_no' = d_no + 1
    /\ UNCHANGED <<dscript, resolved, items, weeks, categories, monthly_categories,
                   all_dates, data, transactions_json, summary_json, wall_clock,
                   earlier, dpc, notDashboard>>

\* the row of one bucket; amounts are whole cents and quantities whole
\* units, which round(.., 2) and round(..) leave as they are
RowOf(key) ==
    [date |-> key[2], name |-> key[1], department |-> key[3],
     subdepartment |-> item_date[key].subdepartment,
     category |-> RowCategory(key[1], item_date[key].subdepartment, key[3]),
     quantity |-> item_date[key].quantity,
     revenue |-> item_date[key].revenue,
     transactions |-> item_date[key].transactions]

\* the order of "rows.sort(key=lambda r: (r['date'], r['department'], r['name']))"
RowBefore(a, b) ==
    IF a.date # b.date THEN TextLess(a.date, b.date)
    ELSE IF a.department # b.department THEN StrRank(a.department) < StrRank(b.department)
    ELSE StrRank(a.name) < StrRank(b.name)

RECURSIVE Sorted(_)
Sorted(S) ==
    IF S = {} THEN <<>>
    ELSE LET first == CHOOSE r \in S : \A o \in S \ {r} : RowBefore(r, o)
         IN  <<first>> \o Sorted(S \ {first})

\* aggregate_item_date, after the loop: the rows, without those of the
\* skipped departments, sorted; export_transactions writes them
ItemDateRows ==
    /\ dscript = "export_dashboards" /\ dpc = "fold" /\ d_no > Len(resolved)
    /\ transactions_json' =
          Sorted({ r \in { RowOf(k) : k \in DOMAIN item_date } :
                     r.department \notin SKIP_DEPARTMENTS })
    /\ dpc' = "summary"
    /\ UNCHANGED <<dscript, resolved, d_no, items, weeks, categories,
                   monthly_categories, all_dates, data, item_date, summary_json,
                   wall_clock, earlier, notDashboard>>

RowsOfDept(dept) == { k \in DOMAIN transactions_json : transactions_json[k].department = dept }

MinText(S) == CHOOSE x \in S : \A y \in S \ {x} : TextLess(x, y)
MaxText(S) == CHOOSE x \in S : \A y \in S \ {x} : TextLess(y, x)
DateRange(S) == IF S = {} THEN <<>> ELSE <<MinText(S), MaxText(S)>>

\* the per-department KPIs of export_summary
DeptSummary(dept) ==
    LET ks == RowsOfDept(dept)
    IN  [revenue |-> SumOver([k \in ks |-> transactions_json[k].revenue], ks),
         quantity |-> SumOver([k \in ks |-> transactions_json[k].quantity], ks),
         transactions |-> SumOver([k \in ks |-> transactions_json[k].transactions], ks),
         uniqueItems |-> Cardinality({ transactions_json[k].name : k \in ks }),
         categories |-> { transactions_json[k].category : k \in ks },
         dateRange |-> DateRange({ transactions_json[k].date : k \in ks })]

\* export_summary: the departments of the rows, the total over them and the
\* time of the run
ExportSummary ==
    /\ dscript = "export_dashboards" /\ dpc = "summary"
    /\ LET depts == { transactions_json[k].department : k \in DOMAIN transactions_json }
           departments == [dp \in depts |-> DeptSummary(dp)]
       IN  summary_json' =
               [generatedAt |-> wall_clock,
                dateRange |-> DateRange({ transactions_json[k].date :
                                            k \in DOMAIN transactions_json }),
                totalRevenue |-> SumOver([dp \in depts |-> departments[dp].revenue], depts),
                departments |-> departments]
    /\ dpc' = "done"
    /\ UNCHANGED <<dscript, resolved, d_no, items, weeks, categories,
                   monthly_categories, all_dates, data, item_date,
                   transactions_json, wall_clock, earlier, notDashboard>>

\* what a run leaves behind: the dict the bar dashboard is drawn from, or
\* the two files of export_dashboards
Artifacts ==
    IF dscript = "build_bar_dashboard"
    THEN [items |-> items, weeks |-> weeks, categories |-> categories,
          monthly_categories |-> monthly_categories, data |-> data]
    ELSE [transactions_json |-> transactions_json, summary_json |-> summary_json]

\* the clock of the runs
Ticks == 1..3

\* the script is run again on the same input, later
Rerun ==
    /\ dpc = "done" /\ earlier = <<>>
    /\ earlier' = <<[artifacts |-> Artifacts, input |-> resolved]>>
    /\ wall_clock' \in { t \in Ticks : t > wall_clock }
    /\ d_no' = 1 /\ items' = <<>> /\ weeks' = <<>> /\ categories' = <<>>
    /\ monthly_categories' = <<>> /\ all_dates' = <<>> /\ data' = <<>>
    /\ item_date' = <<>> /\ transactions_json' = <<>> /\ summary_json' = <<>>
    /\ dpc' = "fold"
    /\ UNCHANGED <<dscript, resolved, notDashboard>>

\* the same items in every other order
Reorderings(seq) ==
    { [k \in DOMAIN seq |-> seq[f[k]]] :
        f \in { g \in [DOMAIN seq -> DOMAIN seq] : \A a, b \in DOMAIN seq : g[a] = g[b] => a = b } }
    \ {seq}

\* the script is run again on the same items, given in another order
RerunReordered ==
    /\ dpc = "done" /\ earlier = <<>>
    /\ earlier' = <<[artifacts |-> Artifacts, input |-> resolved]>>
    /\ resolved' \in Reorderings(resolved)
    /\ wall_clock' \in { t \in Ticks : t > wall_clock }
    /\ d_no' = 1 /\ items' = <<>> /\ weeks' = <<>> /\ categories' = <<>>
    /\ monthly_categories' = <<>> /\ all_dates' = <<>> /\ data' = <<>>
    /\ item_date' = <<>> /\ transactions_json' = <<>> /\ summary_json' = <<>>
    /\ dpc' = "fold"
    /\ UNCHANGED <<dscript, notDashboard>>

DashboardStart ==
    /\ dscript \in Dashboards
    /\ resolved \in SeqsUpTo(ResolvedItems(dscript), MaxResolved)
    /\ d_no = 1
    /\ items = <<>> /\ weeks = <<>> /\ categories = <<>>
    /\ monthly_categories = <<>> /\ all_dates = <<>> /\ data = <<>>
    /\ item_date = <<>> /\ transactions_json = <<>> /\ summary_json = <<>>
    /\ wall_clock \in { t \in Ticks : t + 1 \in Ticks }
    /\ earlier = <<>> /\ dpc = "fold"

InitDashboard ==
    /\ DashboardStart
    /\ ResolveOff
    /\ SeasonalOff
    /\ ReadOff({"none"})
    /\ AggregateOff
    /\ ForecastOff
    /\ CellsOff
    /\ GroupingOff
    /\ MainOff

NextDashboard ==
    \/ LoadItem
    \/ LoadItemNoDate
    \/ LoadDataReturn
    \/ AggregateItemDate
    \/ ItemDateRows
    \/ ExportSummary
    \/ Rerun
    \/ RerunReordered

SpecDashboard == InitDashboard /\ [][NextDashboard]_vars

(***************************************************************************)
(* Properties of the dashboards' aggregates                                *)
(***************************************************************************)
\* the sum of the revenue fields of a dict of buckets
RevenueIn(d) == SumOver([k \in DOMAIN d |-> d[k].revenue], DOMAIN d)

\* the revenue of the resolved items of the run: all of them, and those
\* whose date parses
ItemRevenue(k) ==
    RevenueOf(IF dscript = "build_bar_dashboard" THEN "load_data"
              ELSE "aggregate_item_date", resolved[k])
AllRevenue == SumOver([k \in DOMAIN resolved |-> ItemRevenue(k)], DOMAIN resolved)
Dated == { k \in DOMAIN resolved : ParsesAsDate(resolved[k].date) }
DatedRevenue == SumOver([k \in Dated |-> ItemRevenue(k)], Dated)

\* C18: a resolved item whose Item Created Date does not parse as
\* YYYY-MM-DD is in no date-bucketed output (item-by-date rows, weekly
\* buckets, monthly-by-category buckets) and is counted in the per-item and
\* the per-category totals.
C18_UnparseableDate ==
    /\ (dscript = "build_bar_dashboard" /\ dpc = "done") =>
          /\ RevenueIn(weeks) = DatedRevenue
          /\ RevenueIn(monthly_categories) = DatedRevenue
          /\ RevenueIn(items) = AllRevenue
          /\ RevenueIn(categories) = AllRevenue
    /\ (dscript = "export_dashboards" /\ dpc \in {"summary", "done"}) =>
          \A k \in DOMAIN transactions_json : ParsesAsDate(transactions_json[k].date)

\* every item of the run has one category
OneCategoryPerItem ==
    \A j, k \in DOMAIN resolved :
        resolved[j].name = resolved[k].name =>
            IF dscript = "build_bar_dashboard"
            THEN BarCategory(resolved[j]) = BarCategory(resolved[k])
            ELSE RowCategory(resolved[j].name, resolved[j].subdepartment, resolved[j].department)
                 = RowCategory(resolved[k].name, resolved[k].subdepartment, resolved[k].department)

\* C19: after aggregation, when every item has one category, the per-item
\* revenues, the per-category revenues, the per-department revenues and the
\* reported total revenue all sum to the same amount.
C19_NonDoubleCount ==
    (dpc = "done" /\ OneCategoryPerItem) =>
        IF dscript = "build_bar_dashboard"
        THEN /\ RevenueIn(items) = RevenueIn(categories)
             /\ RevenueIn(items) = data.total_revenue
        ELSE /\ RevenueIn(transactions_json) = RevenueIn(summary_json.departments)
             /\ RevenueIn(transactions_json) = summary_json.totalRevenue

\* C20: a second run over the same input leaves the same aggregate outputs
\* as the first (none of them is the forecast CSV, the one file with a
\* saved_at field).
C20_RerunIdentical ==
    (dpc = "done" /\ earlier # <<>> /\ earlier[1].input = resolved) =>
        Artifacts = earlier[1].artifacts

\* the tables a script has: load_data has no override table and
\* aggregate_item_date no static fallback table; a missing entry is empty
OverrideEntry(name) ==
    IF dscript = "export_dashboards" /\ name \in DOMAIN CategoryOverrides
    THEN CategoryOverrides[name] ELSE ""
FallbackEntry(name) ==
    IF dscript = "build_bar_dashboard" /\ BAR_CATEGORY_MAP(name) # "Other"
    THEN BAR_CATEGORY_MAP(name) ELSE ""

\* the first non-empty of: override, subdepartment without its numeric
\* prefix, static fallback, department, "Other"
FirstNonEmpty(c) ==
    IF \E k \in DOMAIN c : c[k] # ""
    THEN c[CHOOSE k \in DOMAIN c : c[k] # "" /\ \A j \in 1..(k - 1) : c[j] = ""]
    ELSE ""
CategoryInOrder(name, subdept, dept) ==
    FirstNonEmpty(<<OverrideEntry(name), normalize_subdepartment(subdept),
                    FallbackEntry(name), dept, "Other">>)

\* C21: the category of an item is the first non-empty of the override
\* table's entry for its name, its subdepartment without a leading numeric
\* prefix, the static fallback table's entry, its department and "Other";
\* no category in an output is empty.
C21_CategoryOrder ==
    /\ (dscript = "build_bar_dashboard" /\ dpc = "done") =>
          \A k \in DOMAIN resolved :
              (\A j \in 1..(k - 1) : resolved[j].name # resolved[k].name) =>
                  /\ items[resolved[k].name].category # ""
                  /\ items[resolved[k].name].category =
                        CategoryInOrder(resolved[k].name, resolved[k].subdepartment,
                                        resolved[k].department)
    /\ (dscript = "export_dashboards" /\ dpc \in {"summary", "done"}) =>
          \A k \in DOMAIN transactions_json :
              LET r == transactions_json[k]
              IN  /\ r.category # ""
                  /\ r.category = CategoryInOrder(r.name, r.subdepartment, r.department)

\* the resolved items that fall into the bucket of a key
ItemsOfKey(key) ==
    { k \in DOMAIN resolved :
        <<resolved[k].name, resolved[k].date, resolved[k].department>> = key }
ResolvedKeys ==
    { <<resolved[k].name, resolved[k].date, resolved[k].department>> : k \in DOMAIN resolved }
Denylist == {"", "TEST DEPARTMENT", "Parties test"}

\* C22: aggregate_item_date accumulates every item, the denylisted
\* departments included, and filters afterwards: no output row has a
\* department in {"", "TEST DEPARTMENT", "Parties test"}, and every other
\* (name, date, department) bucket has exactly one row whose revenue,
\* quantity and transaction count are those of its own items alone.
C22_DenylistAfterAccumulation ==
    (dscript = "export_dashboards" /\ dpc \in {"summary", "done"}) =>
        /\ DOMAIN item_date = ResolvedKeys
        /\ \A k \in DOMAIN transactions_json :
              transactions_json[k].department \notin Denylist
        /\ \A key \in ResolvedKeys :
              key[3] \notin Denylist =>
                  LET hits == { k \in DOMAIN transactions_json :
                                  /\ transactions_json[k].name = key[1]
                                  /\ transactions_json[k].date = key[2]
                                  /\ transactions_json[k].department = key[3] }
                      own == ItemsOfKey(key)
                  IN  /\ Cardinality(hits) = 1
                      /\ \A k \in hits :
                            /\ transactions_json[k].revenue =
                                  SumOver([j \in own |-> ItemRevenue(j)], own)
                            /\ transactions_json[k].quantity =
                                  SumOver([j \in own |-> resolved[j].qty], own)
                            /\ transactions_json[k].transactions = Cardinality(own)

\* a run over a "TEST DEPARTMENT" item and a Food item has ended: one row
C22_Witness ==
    /\ dscript = "export_dashboards" /\ dpc = "done"
    /\ \E j, k \in DOMAIN resolved :
          /\ resolved[j].department = "TEST DEPARTMENT"
          /\ resolved[k].department = "Food"
    /\ Len(transactions_json) = 1
    /\ transactions_json[1].department = "Food"

\* C28: the aggregators give the same buckets, with the same revenue,
\* quantity, transaction count, subdepartment and category, for every order
\* of the same resolved items, one bucket per key.
C28_OrderInsensitive ==
    (dpc = "done" /\ earlier # <<>>) =>
        IF dscript = "build_bar_dashboard"
        THEN /\ items = earlier[1].artifacts.items
             /\ weeks = earlier[1].artifacts.weeks
             /\ categories = earlier[1].artifacts.categories
             /\ monthly_categories = earlier[1].artifacts.monthly_categories
        ELSE /\ Range(transactions_json) = Range(earlier[1].artifacts.transactions_json)
             /\ \A j, k \in DOMAIN transactions_json :
                   ( /\ transactions_json[j].name = transactions_json[k].name
                     /\ transactions_json[j].date = transactions_json[k].date
                     /\ transactions_json[j].department = transactions_json[k].department )
                   => j = k

(***************************************************************************)
(* Properties of the resolvers: attribution, state and frame               *)
(***************************************************************************)
\* the live Modifier rows between the row with Item ID j and the next live
\* Product or Package row of the CSV
ModifiersUpToPackage(j) ==
    { m \in LiveCsvRows :
        /\ m.item_type = "Modifier" /\ m.item_id > j
        /\ ~\E b \in LiveCsvRows :
              /\ b.item_type \in {"Product", "Package"}
              /\ j < b.item_id /\ b.item_id < m.item_id }

\* C24: in the food export pipeline a Modifier counts only for the nearest
\* Product/Package row before it: the Modifiers after a Package row add
\* nothing to the cost of a Product before that Package.
C24_FoodNearestPreceding ==
    (pipeline = "food" /\ pc = "flushed") =>
        \A e \in 1..Len(yielded) :
            \E r \in LiveCsvRows :
                /\ r.item_id = yielded[e].item.item_id
                /\ yielded[e].item.unit_price =
                      Backfill(r.unit_price, SumPrices(ModifiersUpToPackage(r.item_id)))

\* C25: at the start of every transaction there is no current product and
\* the accumulated cost is 0; until the first Product/Package row of the
\* transaction nothing is current, nothing accumulates and nothing is
\* yielded (so a transaction of Modifiers alone yields nothing); and after
\* the end flush every qualifying row has been yielded, none is pending.
C25_NoCarryAcrossTransactions ==
    /\ (pc = "walk" /\ i = 1) => (current_product = 0 /\ modifier_cost = 0)
    /\ (pc \in {"walk", "flushed"} /\ LastBoundary = 0) =>
          (current_product = 0 /\ modifier_cost = 0 /\ yielded = <<>>)
    /\ pc = "flushed" =>
          \A k \in 1..Len(parsed_rows) :
              (QualifyingProduct(k) \/ QualifyingPackage(k)) => YieldsOf(k) # {}

\* a transaction of two Modifiers with positive amounts has been walked and
\* flushed: nothing was yielded, nothing accumulated
C25_Witness ==
    /\ pc = "flushed" /\ Len(parsed_rows) = 2
    /\ \A k \in 1..2 : parsed_rows[k].item_type = "Modifier" /\ parsed_rows[k].unit_price > 0
    /\ yielded = <<>> /\ current_product = 0 /\ modifier_cost = 0

\* C26: a Product whose own unit amount is not 0 is yielded with exactly
\* that amount whatever Modifiers follow it; a Product whose amount is 0 and
\* whose Modifiers sum to 0 or less (or that has none) is yielded with 0.
C26_OwnPriceKept ==
    \A e \in 1..Len(yielded) :
        LET k == yielded[e].idx
            own == parsed_rows[k].unit_price
            sum == SumUnit(parsed_rows, ModifierRun(parsed_rows, k))
        IN  parsed_rows[k].item_type = "Product" =>
                /\ own # 0 => yielded[e].item.unit_price = own
                /\ (own = 0 /\ sum <= 0) => yielded[e].item.unit_price = 0

\* a Product at 5.00 followed by a Modifier at 1.50 went out at 5.00, and a
\* Product at 0 followed by a Modifier at -1.00 went out at 0
C26_Witness ==
    /\ pc = "flushed" /\ Len(parsed_rows) = 4
    /\ QualifyingProduct(1) /\ parsed_rows[1].unit_price = 500
    /\ parsed_rows[2].item_type = "Modifier" /\ parsed_rows[2].unit_price = 150
    /\ QualifyingProduct(3) /\ parsed_rows[3].unit_price = 0
    /\ parsed_rows[4].item_type = "Modifier" /\ parsed_rows[4].unit_price = -100
    /\ Len(yielded) = 2
    /\ yielded[1].item.unit_price = 500 /\ yielded[2].item.unit_price = 0

\* C27: after the resolver has run over a transaction, every row of its
\* list has every field, the unit amount included, as it was parsed.
C27_RawRowsImmutable ==
    pc = "flushed" => rows = parsed_rows

(***************************************************************************)
(* Grouping by Transaction ID: export_dashboards.group_by_transaction and  *)
(* the append of build_bar_dashboard._read_transactions, then the sort at  *)
(* the head of the resolver's loop                                         *)
(***************************************************************************)
\* rows grouped in one run
MaxSurviving == 3

Groupers == {"group_by_transaction", "_read_transactions"}

\* a row that survived the filters: its Transaction ID, Item ID and type
SurvivingRows ==
    { [txn_id |-> t, item_id |-> n, item_type |-> ty] :
        t \in {"1001", "1002"}, n \in 1..2, ty \in {"Product", "Modifier"} }

\* read_all_csvs has dropped every second row of a (Transaction ID, Item ID)
\* key before group_by_transaction sees the rows; build_bar_dashboard reads
\* one file and keeps no seen-set
Deduplicated(rs) ==
    \A j, k \in DOMAIN rs :
        (rs[j].txn_id = rs[k].txn_id /\ rs[j].item_id = rs[k].item_id) => j = k

SurvivingInputs(sc) ==
    IF sc = "group_by_transaction"
    THEN { rs \in SeqsUpTo(SurvivingRows, MaxSurviving) : Deduplicated(rs) }
    ELSE SeqsUpTo(SurvivingRows, MaxSurviving)

\* "transactions[row['txn_id']].append(row)"
GroupRow ==
    /\ gpc = "group" /\ g_no <= Len(surviving)
    /\ LET row == surviving[g_no]
       IN  /\ transactions' =
                 Put(transactions, row.txn_id, Append(Get(transactions, row.txn_id, <<>>), row))
           /\ group_order' = IF row.txn_id \in DOMAIN transactions THEN group_order
                             ELSE Append(group_order, row.txn_id)
    /\ g_no' = g_no + 1
    /\ UNCHANGED <<gscript, surviving, sort_no, gpc, notGrouping>>

\* the rows are exhausted: the resolver is given the dict
GroupingDone ==
    /\ gpc = "group" /\ g_no > Len(surviving)
    /\ gpc' = "sort"
    /\ UNCHANGED <<gscript, surviving, g_no, transactions, group_order, sort_no, notGrouping>>

\* "for rows in transactions.values(): rows.sort(key=lambda r: r['item_id'])":
\* the list of the group is sorted in place before it is walked
SortGroup ==
    /\ gpc = "sort" /\ sort_no <= Len(group_order)
    /\ transactions' =
          [transactions EXCEPT ![group_order[sort_no]] = SortByItemId(@)]
    /\ sort_no' = sort_no + 1
    /\ UNCHANGED <<gscript, surviving, g_no, group_order, gpc, notGrouping>>

SortDone ==
    /\ gpc = "sort" /\ sort_no > Len(group_order)
    /\ gpc' = "done"
    /\ UNCHANGED <<gscript, surviving, g_no, transactions, group_order, sort_no, notGrouping>>

GroupingStart ==
    /\ gscript \in Groupers
    /\ surviving \in SurvivingInputs(gscript)
    /\ g_no = 1 /\ transactions = <<>> /\ group_order = <<>>
    /\ sort_no = 1 /\ gpc = "group"

InitGrouping ==
    /\ GroupingStart
    /\ ResolveOff
    /\ SeasonalOff
    /\ ReadOff({"none"})
    /\ AggregateOff
    /\ ForecastOff
    /\ CellsOff
    /\ DashboardOff
    /\ MainOff

NextGrouping ==
    \/ GroupRow
    \/ GroupingDone
    \/ SortGroup
    \/ SortDone

SpecGrouping == InitGrouping /\ [][NextGrouping]_vars

(***************************************************************************)
(* Properties of the grouping                                              *)
(***************************************************************************)
\* how often the row value r occurs in the list rs
Occurrences(rs, r) == Cardinality({ k \in DOMAIN rs : rs[k] = r })

\* the rows grouped so far
Grouped == SubSeq(surviving, 1, g_no - 1)

\* the rows of transaction t among the surviving rows
RowsOfTransaction(t) == { surviving[k] : k \in { j \in DOMAIN surviving : surviving[j].txn_id = t } }

DistinctItemIds ==
    \A j, k \in DOMAIN surviving :
        (surviving[j].txn_id = surviving[k].txn_id /\ surviving[j].item_id = surviving[k].item_id)
            => j = k

\* C29: every surviving row is in exactly one group, that of its
\* Transaction ID, as often as it was read and in no other; once sorted a
\* group is in ascending Item ID order, and with distinct Item IDs its list is
\* fixed by the set of its rows alone, whatever order they were read in.
C29_GroupingTotalAndOrdered ==
    /\ \A r \in SurvivingRows :
          \A t \in {"1001", "1002"} :
              Occurrences(Get(transactions, t, <<>>), r) =
                  IF t = r.txn_id THEN Occurrences(Grouped, r) ELSE 0
    /\ gpc = "done" =>
          \A t \in DOMAIN transactions :
              /\ \A k \in 1..(Len(transactions[t]) - 1) :
                    transactions[t][k].item_id <= transactions[t][k + 1].item_id
              /\ DistinctItemIds =>
                    \A k \in DOMAIN transactions[t] :
                        /\ transactions[t][k] \in RowsOfTransaction(t)
                        /\ Cardinality({ q \in RowsOfTransaction(t) :
                                           q.item_id < transactions[t][k].item_id }) = k - 1

\* rows read as (1001, 2), (1002, 1), (1001, 1): two groups, 1001 holds its
\* two rows in the order 1, 2
C29_Witness ==
    /\ gpc = "done" /\ Len(surviving) = 3
    /\ surviving[1].txn_id = "1001" /\ surviving[1].item_id = 2
    /\ surviving[2].txn_id = "1002"
    /\ surviving[3].txn_id = "1001" /\ surviving[3].item_id = 1
    /\ transactions["1001"] = <<surviving[3], surviving[1]>>
    /\ transactions["1002"] = <<surviving[2]>>

(***************************************************************************)
(* The stages of a run: export_dashboards.main and export_clean_csv.main   *)
(***************************************************************************)
Mains == {"export_dashboards", "export_clean_csv"}

\* "float(cell or 0)" returns: the cell is empty or a number
FloatOrZeroReturns(cell) == cell = "" \/ IsNumber(cell)

\* "float(cell)" returns: the cell is a number (float('') raises ValueError)
FloatReturns(cell) == IsNumber(cell)

AllCells(cells, Returns(_)) == \A k \in DOMAIN cells : Returns(cells[k])

\* an uncaught exception: the traceback is printed and the status is 1
Uncaught(exception) ==
    /\ exit_status' = 1
    /\ diagnostic' = exception
    /\ mpc' = "failed"

\* main: "if not csv_files: print('ERROR: ...'); return 1"
MainNoFiles ==
    /\ mscript = "export_dashboards" /\ mpc = "start" /\ ~has_files
    /\ exit_status' = 1
    /\ diagnostic' = "ERROR: No CSV files found in data/"
    /\ mpc' = "failed"
    /\ UNCHANGED <<mscript, has_files, header_ok, quantity_cells, has_bowling,
                   persisted, written, notMain>>

\* [1/4] export_transactions: the rows are read, resolved and aggregated,
\* then transactions.json is written
MainTransactions ==
    /\ mscript = "export_dashboards" /\ mpc = "start" /\ has_files
    /\ AllCells(quantity_cells, FloatOrZeroReturns)
    /\ written' = Append(written, "transactions.json")
    /\ mpc' = "summary"
    /\ UNCHANGED <<mscript, has_files, header_ok, quantity_cells, has_bowling,
                   persisted, exit_status, diagnostic, notMain>>

\* [1/4] read_all_csvs raises ValueError on a cell that is no number
MainTransactionsRaises ==
    /\ mscript = "export_dashboards" /\ mpc = "start" /\ has_files
    /\ ~AllCells(quantity_cells, FloatOrZeroReturns)
    /\ Uncaught("ValueError")
    /\ UNCHANGED <<mscript, has_files, header_ok, quantity_cells, has_bowling,
                   persisted, written, notMain>>

\* [2/4] export_summary writes summary.json
MainSummary ==
    /\ mscript = "export_dashboards" /\ mpc = "summary"
    /\ written' = Append(written, "summary.json")
    /\ mpc' = "seasonality"
    /\ UNCHANGED <<mscript, has_files, header_ok, quantity_cells, has_bowling,
                   persisted, exit_status, diagnostic, notMain>>

\* [3/4] export_bowling_seasonality: "if not daily: return", else the file
\* is written (its rows are among those [1/4] has parsed)
MainSeasonality ==
    /\ mscript = "export_dashboards" /\ mpc = "seasonality"
    /\ written' = IF has_bowling THEN Append(written, "bowling_seasonality.json")
                  ELSE written
    /\ mpc' = "forecast"
    /\ UNCHANGED <<mscript, has_files, header_ok, quantity_cells, has_bowling,
                   persisted, exit_status, diagnostic, notMain>>

\* [4/4] export_bowling_forecast: the persisted forecast is read, the actuals
\* are added, bowling_forecast.json is written unless both are empty; main
\* returns 0
MainForecast ==
    /\ mscript = "export_dashboards" /\ mpc = "forecast"
    /\ persisted.exists => AllCells(persisted.cells, FloatReturns)
    /\ written' = IF (persisted.exists /\ persisted.cells # <<>>) \/ has_bowling
                  THEN Append(written, "bowling_forecast.json")
                  ELSE written
    /\ exit_status' = 0
    /\ mpc' = "done"
    /\ UNCHANGED <<mscript, has_files, header_ok, quantity_cells, has_bowling,
                   persisted, diagnostic, notMain>>

\* [4/4] "round(float(row['predicted_revenue']), 2)" raises ValueError on a
\* row of the persisted forecast that cannot be read
MainForecastRaises ==
    /\ mscript = "export_dashboards" /\ mpc = "forecast"
    /\ persisted.exists /\ ~AllCells(persisted.cells, FloatReturns)
    /\ Uncaught("ValueError")
    /\ UNCHANGED <<mscript, has_files, header_ok, quantity_cells, has_bowling,
                   persisted, written, notMain>>

\* export_clean_csv.main: _read_transactions returns
CleanRead ==
    /\ mscript = "export_clean_csv" /\ mpc = "start"
    /\ header_ok /\ AllCells(quantity_cells, FloatOrZeroReturns)
    /\ mpc' = "write"
    /\ UNCHANGED <<mscript, has_files, header_ok, quantity_cells, has_bowling,
                   persisted, written, exit_status, diagnostic, notMain>>

\* export_clean_csv.main: header.index(c) or float(...) raises ValueError in
\* _read_transactions, before the output file is opened
CleanReadRaises ==
    /\ mscript = "export_clean_csv" /\ mpc = "start"
    /\ ~(header_ok /\ AllCells(quantity_cells, FloatOrZeroReturns))
    /\ Uncaught("ValueError")
    /\ UNCHANGED <<mscript, has_files, header_ok, quantity_cells, has_bowling,
                   persisted, written, notMain>>

\* export_clean_csv.main: the output file is opened and the resolved items
\* are written
CleanWrite ==
    /\ mscript = "export_clean_csv" /\ mpc = "write"
    /\ written' = Append(written, "food_purchases.csv")
    /\ exit_status' = 0
    /\ mpc' = "done"
    /\ UNCHANGED <<mscript, has_files, header_ok, quantity_cells, has_bowling,
                   persisted, diagnostic, notMain>>

\* the cells of the inputs: a number, an empty cell, a cell that is no number
QuantityCells == {"3.00", "", "abc"}
PredictedRevenueCells == {"12.50", "", "abc"}

RunStart ==
    /\ mscript \in Mains
    /\ quantity_cells \in SeqsUpTo(QuantityCells, MaxCsvRows)
    /\ IF mscript = "export_dashboards"
       THEN /\ has_files \in BOOLEAN /\ header_ok = TRUE
            /\ has_bowling \in BOOLEAN
            /\ \/ persisted = [exists |-> FALSE, cells |-> <<>>]
               \/ \E cells \in SeqsUpTo(PredictedRevenueCells, MaxCsvRows) :
                     persisted = [exists |-> TRUE, cells |-> cells]
       ELSE /\ has_files = TRUE /\ header_ok \in BOOLEAN
            /\ has_bowling = FALSE
            /\ persisted = [exists |-> FALSE, cells |-> <<>>]
    /\ written = <<>> /\ exit_status = -1 /\ diagnostic = "" /\ mpc = "start"

InitMain ==
    /\ RunStart
    /\ ResolveOff
    /\ SeasonalOff
    /\ ReadOff({"none"})
    /\ AggregateOff
    /\ ForecastOff
    /\ CellsOff
    /\ DashboardOff
    /\ GroupingOff

NextMain ==
    \/ MainNoFiles
    \/ MainTransactions
    \/ MainTransactionsRaises
    \/ MainSummary
    \/ MainSeasonality
    \/ MainForecast
    \/ MainForecastRaises
    \/ CleanRead
    \/ CleanReadRaises
    \/ CleanWrite

SpecMain == InitMain /\ [][NextMain]_vars

(***************************************************************************)
(* Properties of the runs                                                  *)
(***************************************************************************)
\* C23: a run that meets a fatal error ends with a non-zero status and a
\* diagnostic and has written none of its output files: a run writes all of
\* its outputs or none.
C23_AllOrNothing ==
    mpc = "failed" =>
        /\ exit_status # 0 /\ exit_status # -1
        /\ diagnostic # ""
        /\ written = <<>>

====
